---- MODULE Spec2Model ----
(***************************************************************************)
(* UptimeGuard: the polling scheduler (monitor.py), its status snapshot    *)
(* and alert rule, the probe, the persisted notification tracker           *)
(* (notification_tracker.py) and the log manager (log_manager.py).         *)
(*                                                                         *)
(* Python dicts are functions whose DOMAIN is the set of keys present.     *)
(* The specifications share the variables:                                 *)
(*   Spec           the scheduler loop of monitor.py (poll_once per site)  *)
(*   SpecFaults     the loop with the exceptions its calls can raise       *)
(*   SpecProbe      one call of monitor.real_check                         *)
(*   SpecReader     the loop with ui._sites_to_table_rows reading          *)
(*   SpecTracker    arbitrary calls of the NotificationTracker API         *)
(*   SpecQueries    the tracker's two decision queries                     *)
(*   SpecDecider    a caller that asks the tracker at every probe and      *)
(*                  commits exactly when an alert was sent                 *)
(*   SpecLogMemory  LogManager: append, drain, history read                *)
(*   SpecLogFile    LogManager: append and cleanup of the file             *)
(***************************************************************************)
EXTENDS Integers, Sequences, FiniteSets, TLC

\* ---------------------------------------------------------------- bounds
MaxProbes == 7
MaxThreshold == 2
MaxFailures == 2
MaxTicks == 1
MaxAgeHours == 1
MaxDeciderProbes == 5
MaxRaises == 1
MaxBodyLen == 2
MaxKeywords == 2
MaxLogHistory == 2
MaxOverflow == 1
MaxSlackTicks == 2
TicksPerSecond == 2
MaxSites == 2
MaxManualProbes == 2
MaxStepProbes == 4

\* ------------------------------------------------------ program constants
SecondsPerHour == 3600
DownAlertWindow == 3
cleanup_interval == 3600
log_retention_days == 3
HoursPerDay == 24

URLs == {"u1", "u2"}
Outcomes == {"up", "down"}

\* The endpoint lists storage.load_sites can return (add_site does not
\* reject a URL that is already listed).
SiteLists == {<<"u1">>, <<"u1", "u2">>, <<"u1", "u1">>}

Thresholds == 1..MaxThreshold

VARIABLES
    config,                  \* telegram_config.load_config()
    sites,                   \* storage.load_sites()
    latest_status_snapshot,  \* monitor.latest_status_snapshot
    log,                     \* lines handed to write_log_line, in order
    pc, cycle_sites, cycle_threshold, idx,  \* the _loop / poll_once position
    probes,                  \* history: the number of probes made so far
    hist,                    \* history: the outcomes probed per URL, in order
    alerts,                  \* history: the alert sends per URL, in order
    state_cache,             \* NotificationTracker._state_cache
    state_file,              \* the file at NotificationTracker.state_file_path
    clock,                   \* time.time()
    last_op,                 \* history: the last tracker call, its arguments and result
    trace,                   \* history: per URL, what the tracker answered at each probe
    log_queue,               \* LogManager.log_queue
    log_history,             \* LogManager.log_history
    log_file,                \* the lines of the file at LogManager.log_file_path
    last_cleanup_time,       \* LogManager.last_cleanup_time, in ticks
    cleanup_times,           \* history: the times at which log_message ran the cleanup
    wall_clock,              \* time.time() / datetime.now() of the log manager, in ticks
    appended,                \* history: every entry log_message has built, in order
    returned,                \* history: every entry a drain has returned, in order
    log_op,                  \* history: the last LogManager call and its result
    cleanup_job,             \* the locals of a cleanup pass between its read and its rewrite
    drain_job,               \* the locals of drain_queue_as_text inside its loop
    probe_result,            \* history: the last real_check call and what it returned
    reader,                  \* the locals of ui._sites_to_table_rows for one site
    iteration,               \* the position and locals of poll_once inside one iteration
    events,                  \* history: the steps poll_once has taken in the current cycle
    threads,                 \* per thread: the tracker call it makes and its position in it
    file_tail                \* what is left in the state file behind the last text written

vars == <<config, sites, latest_status_snapshot, log, pc, cycle_sites,
          cycle_threshold, idx, probes, hist, alerts, state_cache, state_file,
          clock, last_op, trace, log_queue, log_history, log_file,
          last_cleanup_time, cleanup_times, wall_clock, appended, returned, log_op, cleanup_job,
          drain_job, probe_result, reader, iteration, events, threads, file_tail>>

schedulerVars == <<config, sites, latest_status_snapshot, log, pc, cycle_sites,
                   cycle_threshold, idx, probes, hist, alerts>>

trackerVars == <<state_cache, state_file, clock, last_op, trace>>

logVars == <<log_queue, log_history, log_file, last_cleanup_time, cleanup_times, wall_clock,
             appended, returned, log_op, cleanup_job, drain_job>>

\* what the scheduler and the tracker leave alone
localVars == <<iteration, events, threads, file_tail>>

auxVars == <<logVars, probe_result, reader, localVars>>

\* ---------------------------------------------------------------- helpers
\* d[k] = v, as a Python dict assignment (the key is added when missing)
DictSet(d, k, v) == [x \in (DOMAIN d) \cup {k} |-> IF x = k THEN v ELSE d[x]]

\* del d[k]
DictDel(d, k) == [x \in (DOMAIN d) \ {k} |-> d[x]]

EmptyDict == [x \in {} |-> 0]

\* length of the trailing run of "down" in a sequence of outcomes
RECURSIVE TrailingDowns(_)
TrailingDowns(h) ==
    IF h = <<>> THEN 0
    ELSE IF h[Len(h)] = "down" THEN 1 + TrailingDowns(SubSeq(h, 1, Len(h) - 1))
    ELSE 0

\* length of the longest contiguous run of "down" in a sequence of outcomes
RECURSIVE LongestDownRun(_)
LongestDownRun(h) ==
    IF h = <<>> THEN 0
    ELSE LET rest == LongestDownRun(SubSeq(h, 1, Len(h) - 1))
             tail == TrailingDowns(h)
         IN IF tail > rest THEN tail ELSE rest

\* ------------------------------------------------------- telegram_config
is_telegram_configured_ignoring_enabled(c) ==
    c.bot_token # "" /\ c.chat_id # ""

is_telegram_configured(c) ==
    c.bot_token # "" /\ c.chat_id # "" /\ c.enabled

get_failure_threshold(c) == c.failure_threshold

\* ------------------------------------------------------- monitor.poll_once
\* previous = latest_status_snapshot.get(url, {})
previous_failures_of(snapshot, url) ==
    IF url \in DOMAIN snapshot THEN snapshot[url].consecutive_failures ELSE 0

previous_status_of(snapshot, url) ==
    IF url \in DOMAIN snapshot THEN snapshot[url].status ELSE "unknown"

new_failures_never_reset(previous_failures, status) ==
    IF status = "down" THEN previous_failures + 1 ELSE previous_failures

new_failures_of(previous_failures, status) ==
    IF status = "down" THEN previous_failures + 1 ELSE 0

down_alert_due_strict(status, new_failures, failure_threshold) ==
    /\ status = "down"
    /\ new_failures > failure_threshold
    /\ new_failures <= failure_threshold + DownAlertWindow

down_alert_due_without_upper_limit(status, new_failures, failure_threshold) ==
    /\ status = "down"
    /\ new_failures >= failure_threshold

down_alert_due(status, new_failures, failure_threshold) ==
    /\ status = "down"
    /\ new_failures >= failure_threshold
    /\ new_failures <= failure_threshold + DownAlertWindow

recovery_alert_due_any_run(status, previous_status, previous_failures, failure_threshold) ==
    /\ status = "up"
    /\ previous_status = "down"

recovery_alert_due_any_status(status, previous_status, previous_failures, failure_threshold) ==
    /\ previous_status = "down"
    /\ previous_failures >= failure_threshold

recovery_alert_due_within_window(status, previous_status, previous_failures, failure_threshold) ==
    /\ status = "up"
    /\ previous_status = "down"
    /\ previous_failures >= failure_threshold
    /\ previous_failures <= failure_threshold + DownAlertWindow

recovery_alert_due(status, previous_status, previous_failures, failure_threshold) ==
    /\ status = "up"
    /\ previous_status = "down"
    /\ previous_failures >= failure_threshold

poll_log_lines_status_fixed(url, status, new_failures, down_due, recovery_due) ==
    <<[kind |-> "check", url |-> url, status |-> "up"]>>
    \o (IF down_due
        THEN <<[kind |-> "telegram_down", url |-> url, status |-> status]>>
        ELSE IF recovery_due
        THEN <<[kind |-> "telegram_recovery", url |-> url, status |-> status]>>
        ELSE <<>>)

\* The lines one iteration of the loop hands to write_log_line.
poll_log_lines(url, status, new_failures, down_due, recovery_due) ==
    <<[kind |-> "check", url |-> url, status |-> status]>>
    \o (IF down_due
        THEN <<[kind |-> "telegram_down", url |-> url, status |-> status]>>
        ELSE IF recovery_due
        THEN <<[kind |-> "telegram_recovery", url |-> url, status |-> status]>>
        ELSE <<>>)

\* The alert one iteration sends: at most one, the down branch first.
poll_alerts(at, new_failures, down_due, recovery_due, delivered) ==
    IF down_due
    THEN <<[kind |-> "down", n |-> new_failures, at |-> at, delivered |-> delivered]>>
    ELSE IF recovery_due
    THEN <<[kind |-> "recovery", n |-> 0, at |-> at, delivered |-> delivered]>>
    ELSE <<>>

\* _loop: sites = get_sites_callable(); poll_once(sites) reads the threshold
StartCycle ==
    /\ pc = "idle"
    /\ pc' = "probing"
    /\ cycle_sites' = sites
    /\ cycle_threshold' = get_failure_threshold(config)
    /\ idx' = 1
    /\ UNCHANGED <<config, sites, latest_status_snapshot, log, probes, hist, alerts>>
    /\ UNCHANGED <<trackerVars, auxVars>>

\* One iteration of poll_once's loop: probe, snapshot, log line, alert.
\* outcome is real_check's status; delivered is the transport's answer.
PollSite(outcome, delivered) ==
    /\ pc = "probing"
    /\ idx <= Len(cycle_sites)
    /\ probes < MaxProbes
    /\ cycle_sites[idx] \in URLs
    /\ LET url == cycle_sites[idx]
           previous_failures == previous_failures_of(latest_status_snapshot, url)
           previous_status == previous_status_of(latest_status_snapshot, url)
           new_failures == new_failures_of(previous_failures, outcome)
           configured == is_telegram_configured(config)
           down_due == configured /\ down_alert_due(outcome, new_failures, cycle_threshold)
           recovery_due == configured /\ ~down_due
                           /\ recovery_alert_due(outcome, previous_status,
                                                 previous_failures, cycle_threshold)
       IN /\ (delivered = FALSE \/ down_due \/ recovery_due)
          /\ latest_status_snapshot' =
                DictSet(latest_status_snapshot, url,
                        [status |-> outcome, consecutive_failures |-> new_failures])
          /\ hist' = [hist EXCEPT ![url] = Append(@, outcome)]
          /\ log' = log \o poll_log_lines(url, outcome, new_failures, down_due, recovery_due)
          /\ alerts' = [alerts EXCEPT ![url] =
                           @ \o poll_alerts(Len(hist[url]) + 1, new_failures,
                                            down_due, recovery_due, delivered)]
    /\ idx' = idx + 1
    /\ probes' = probes + 1
    /\ UNCHANGED <<config, sites, pc, cycle_sites, cycle_threshold>>
    /\ UNCHANGED <<trackerVars, auxVars>>

\* poll_once returns; _loop sleeps interval_seconds
EndCycle ==
    /\ pc = "probing"
    /\ idx > Len(cycle_sites)
    /\ pc' = "idle"
    /\ UNCHANGED <<config, sites, latest_status_snapshot, log, cycle_sites,
                   cycle_threshold, idx, probes, hist, alerts>>
    /\ UNCHANGED <<trackerVars, auxVars>>

\* --------------------------------------------- notification_tracker.py
\* json.dump / json.load of the state table: the document is the set of its
\* members <<key, object>>, an object the tuple of its three values.
json_dump(table) ==
    {<<k, <<table[k].status, table[k].timestamp, table[k].consecutive_failures>>>> :
        k \in DOMAIN table}

json_load(text) ==
    [k \in {m[1] : m \in text} |->
        LET obj == (CHOOSE m \in text : m[1] = k)[2]
        IN [status |-> obj[1], timestamp |-> obj[2], consecutive_failures |-> obj[3]]]

\* NotificationTracker.__init__ -> _load_state: the table a tracker
\* constructed on this file holds
load_state(file) == IF file.exists THEN json_load(file.text) ELSE EmptyDict

save_state_never(self) == self

\* The tracker object is self = [cache, file]. The file is taken to be
\* writable: when open or json.dump raises, _save_state prints the error and
\* returns with the file as the failed write left it.
save_state(self) ==
    [cache |-> self.cache, file |-> [exists |-> TRUE, text |-> json_dump(self.cache)]]

should_send_down_notification_no_dedup(cache, site_url, current_status, consecutive_failures, failure_threshold) ==
    /\ current_status = "down"
    /\ consecutive_failures >= failure_threshold

should_send_down_notification_at_threshold_only(cache, site_url, current_status, consecutive_failures, failure_threshold) ==
    /\ current_status = "down"
    /\ consecutive_failures >= failure_threshold
    /\ site_url \in DOMAIN cache => cache[site_url].status = "up"

should_send_down_notification_on_change(cache, site_url, current_status, consecutive_failures, failure_threshold) ==
    /\ current_status = "down"
    /\ consecutive_failures >= failure_threshold
    /\ (site_url \in DOMAIN cache /\ cache[site_url].status = "down") =>
          cache[site_url].consecutive_failures # consecutive_failures

should_send_down_notification_first_of_run(cache, site_url, current_status, consecutive_failures, failure_threshold) ==
    /\ current_status = "down"
    /\ consecutive_failures = failure_threshold
    /\ (site_url \in DOMAIN cache /\ cache[site_url].status = "down") =>
          consecutive_failures > cache[site_url].consecutive_failures

should_send_down_notification(cache, site_url, current_status, consecutive_failures, failure_threshold) ==
    IF current_status # "down" THEN FALSE
    ELSE IF consecutive_failures < failure_threshold THEN FALSE
    ELSE IF site_url \notin DOMAIN cache THEN TRUE
    ELSE LET last_state == cache[site_url]
         IN IF /\ last_state.status = "down"
               /\ last_state.consecutive_failures = consecutive_failures
            THEN FALSE
            ELSE IF /\ last_state.status = "down"
                    /\ consecutive_failures > last_state.consecutive_failures
            THEN TRUE
            ELSE IF last_state.status = "up" THEN TRUE
            ELSE FALSE

should_send_recovery_notification_no_dedup(cache, site_url, current_status, previous_status, previous_failures, failure_threshold) ==
    /\ current_status = "up"
    /\ previous_status = "down"
    /\ previous_failures >= failure_threshold

should_send_recovery_notification_ignores_threshold(cache, site_url, current_status, previous_status, previous_failures, failure_threshold) ==
    /\ current_status = "up"
    /\ previous_status = "down"
    /\ site_url \in DOMAIN cache => cache[site_url].status # "up"

should_send_recovery_notification(cache, site_url, current_status, previous_status, previous_failures, failure_threshold) ==
    IF current_status # "up" THEN FALSE
    ELSE IF previous_status # "down" THEN FALSE
    ELSE IF previous_failures < failure_threshold THEN FALSE
    ELSE IF site_url \notin DOMAIN cache THEN TRUE
    ELSE LET last_state == cache[site_url]
         IN IF last_state.status = "up" THEN FALSE
            ELSE IF last_state.status = "down" THEN TRUE
            ELSE FALSE

after_query_committing(self, site_url, status, n, answer, now) ==
    IF answer
    THEN save_state([cache |-> DictSet(self.cache, site_url,
                                       [status |-> status, timestamp |-> now,
                                        consecutive_failures |-> n]),
                     file |-> self.file])
    ELSE self

\* The tracker after a decision query returned: neither query assigns to
\* _state_cache or writes the file.
after_query(self, site_url, status, n, answer, now) == self

update_notification_state_drop_others(self, site_url, status, consecutive_failures, now) ==
    save_state([cache |-> DictSet(EmptyDict, site_url,
                                  [status |-> status, timestamp |-> now,
                                   consecutive_failures |-> consecutive_failures]),
                file |-> self.file])

update_notification_state(self, site_url, status, consecutive_failures, now) ==
    save_state([cache |-> DictSet(self.cache, site_url,
                                  [status |-> status, timestamp |-> now,
                                   consecutive_failures |-> consecutive_failures]),
                file |-> self.file])

clear_site_state_unsaved(self, site_url) ==
    IF site_url \in DOMAIN self.cache
    THEN [cache |-> DictDel(self.cache, site_url), file |-> self.file]
    ELSE self

clear_site_state(self, site_url) ==
    IF site_url \in DOMAIN self.cache
    THEN save_state([cache |-> DictDel(self.cache, site_url), file |-> self.file])
    ELSE self

cleanup_old_states_refreshing(self, max_age_hours, now) ==
    LET max_age_seconds == max_age_hours * SecondsPerHour
        sites_to_remove == {u \in DOMAIN self.cache :
                                now - self.cache[u].timestamp > max_age_seconds}
        kept == [u \in (DOMAIN self.cache) \ sites_to_remove |->
                    [self.cache[u] EXCEPT !.timestamp = now]]
    IN save_state([cache |-> kept, file |-> self.file])

cleanup_old_states(self, max_age_hours, now) ==
    LET max_age_seconds == max_age_hours * SecondsPerHour
        sites_to_remove == {u \in DOMAIN self.cache :
                                now - self.cache[u].timestamp > max_age_seconds}
        kept == [u \in (DOMAIN self.cache) \ sites_to_remove |-> self.cache[u]]
    IN IF sites_to_remove # {}
       THEN save_state([cache |-> kept, file |-> self.file])
       ELSE [cache |-> kept, file |-> self.file]

Self == [cache |-> state_cache, file |-> state_file]

Op(name, url, status, previous_status, n, threshold, hours, result) ==
    [name |-> name, url |-> url, status |-> status, previous_status |-> previous_status,
     n |-> n, threshold |-> threshold, hours |-> hours, result |-> result]

NoOp == Op("none", "", "", "", 0, 0, 0, FALSE)

TrackerInit ==
    /\ state_cache = EmptyDict
    /\ state_file = [exists |-> FALSE, text |-> {}]
    /\ clock = 0
    /\ last_op = NoOp
    /\ trace = [u \in URLs |-> <<>>]

SchedulerInit ==
    /\ config \in [bot_token : {"", "token"}, chat_id : {"", "chat"},
                   enabled : BOOLEAN, failure_threshold : Thresholds]
    /\ sites \in SiteLists
    /\ latest_status_snapshot = EmptyDict
    /\ log = <<>>
    /\ pc = "idle"
    /\ cycle_sites = <<>>
    /\ cycle_threshold = 0
    /\ idx = 1
    /\ probes = 0
    /\ hist = [u \in URLs |-> <<>>]
    /\ alerts = [u \in URLs |-> <<>>]

\* ---- the state of the parts a specification does not exercise
NoLogOp == [name |-> "none", n |-> 0, result |-> <<>>]

NoJob == [active |-> FALSE, lines |-> <<>>, cutoff |-> 0]

NoDrain == [active |-> FALSE, chunks |-> <<>>]

NoProbe == [called |-> FALSE]

NoRow == [status |-> "-", consecutive_failures |-> 0]

NoReader == [at |-> "idle", url |-> "", snap |-> EmptyDict, row |-> NoRow]

LogIdle ==
    /\ log_queue = <<>>
    /\ log_history = <<>>
    /\ log_file = <<>>
    /\ last_cleanup_time = 0
    /\ cleanup_times = <<>>
    /\ wall_clock = 0
    /\ appended = <<>>
    /\ returned = <<>>
    /\ log_op = NoLogOp
    /\ cleanup_job = NoJob
    /\ drain_job = NoDrain

NoIteration == [at |-> "probe"]

NoThreads == [t \in {} |-> 0]

LocalsIdle ==
    /\ iteration = NoIteration
    /\ events = <<>>
    /\ threads = NoThreads
    /\ file_tail = 0

AuxInit == LogIdle /\ probe_result = NoProbe /\ reader = NoReader /\ LocalsIdle

Init == SchedulerInit /\ TrackerInit /\ AuxInit

Next ==
    \/ StartCycle
    \/ \E outcome \in Outcomes, delivered \in BOOLEAN : PollSite(outcome, delivered)
    \/ EndCycle

Spec == Init /\ [][Next]_vars

\* ----------------------------------------- exceptions in the scheduler loop
\* An element of sites.json that is not an object: site.get raises
\* AttributeError at the first line of the iteration.
Malformed == "not_a_dict"

FaultSiteLists == {<<"u1", "u2">>, <<Malformed, "u1">>, <<"u1", Malformed, "u2">>}

\* the "[ERROR] polling exception" lines written so far
ErrorLines == Len(SelectSeq(log, LAMBDA l : l.kind = "error"))

\* where an iteration of poll_once can raise outside a try block
Faults == {"record", "check_log"}

\* One iteration of poll_once's loop that raises.  Nothing in poll_once
\* catches it: control leaves the for loop and poll_once, for the except
\* clause of _loop.
\*   "record"     site.get on a record that is not a dict
\*   "check_log"  write_log_line of the check line raises (ensure_log_file,
\*                the manager's constructor or print), after the probe and the
\*                snapshot update and before the alert rule
PollSiteRaises(fault, outcome) ==
    /\ pc = "probing"
    /\ ErrorLines < MaxRaises
    /\ idx <= Len(cycle_sites)
    /\ \/ /\ fault = "record"
          /\ cycle_sites[idx] = Malformed
          /\ outcome = "down"
          /\ UNCHANGED <<latest_status_snapshot, hist, probes>>
       \/ /\ fault = "check_log"
          /\ cycle_sites[idx] \in URLs
          /\ probes < MaxProbes
          /\ LET url == cycle_sites[idx]
                 previous_failures == previous_failures_of(latest_status_snapshot, url)
                 new_failures == new_failures_of(previous_failures, outcome)
             IN /\ latest_status_snapshot' =
                      DictSet(latest_status_snapshot, url,
                              [status |-> outcome, consecutive_failures |-> new_failures])
                /\ hist' = [hist EXCEPT ![url] = Append(@, outcome)]
          /\ probes' = probes + 1
    /\ pc' = "raised"
    /\ UNCHANGED <<config, sites, log, cycle_sites, cycle_threshold, idx, alerts>>
    /\ UNCHANGED <<trackerVars, auxVars>>

\* _loop: get_sites_callable() raises (load_sites catches JSONDecodeError
\* only; an unreadable sites.json raises OSError or UnicodeDecodeError)
FetchRaises ==
    /\ pc = "idle"
    /\ ErrorLines < MaxRaises
    /\ pc' = "raised"
    /\ UNCHANGED <<config, sites, latest_status_snapshot, log, cycle_sites,
                   cycle_threshold, idx, probes, hist, alerts>>
    /\ UNCHANGED <<trackerVars, auxVars>>

\* _loop's except clause: write_log_line("[ERROR] polling exception: ...").
\* When the call returns the loop sleeps and goes round again; the call is
\* inside no try block, so when it raises the exception leaves the thread's
\* target function and the thread ends.
after_handler(logged) == IF logged THEN "idle" ELSE "dead"

LoopCatches(logged) ==
    /\ pc = "raised"
    /\ pc' = after_handler(logged)
    /\ log' = IF logged THEN Append(log, [kind |-> "error", url |-> "", status |-> ""])
                         ELSE log
    /\ UNCHANGED <<config, sites, latest_status_snapshot, cycle_sites,
                   cycle_threshold, idx, probes, hist, alerts>>
    /\ UNCHANGED <<trackerVars, auxVars>>

FaultInit ==
    /\ config \in [bot_token : {"token"}, chat_id : {"chat"},
                   enabled : BOOLEAN, failure_threshold : {1}]
    /\ sites \in FaultSiteLists
    /\ latest_status_snapshot = EmptyDict
    /\ log = <<>>
    /\ pc = "idle"
    /\ cycle_sites = <<>>
    /\ cycle_threshold = 0
    /\ idx = 1
    /\ probes = 0
    /\ hist = [u \in URLs |-> <<>>]
    /\ alerts = [u \in URLs |-> <<>>]
    /\ TrackerInit
    /\ AuxInit

FaultNext ==
    \/ Next
    \/ \E fault \in Faults, outcome \in Outcomes : PollSiteRaises(fault, outcome)
    \/ FetchRaises
    \/ \E logged \in BOOLEAN : LoopCatches(logged)

\* the scheduler loop with the exceptions its calls can raise
SpecFaults == FaultInit /\ [][FaultNext]_vars

\* ------------------------------------------ calls of the tracker's methods
Statuses == {"up", "down"}
PreviousStatuses == {"up", "down", "unknown"}
Counts == 0..MaxFailures

\* time.time() advances between calls
Tick ==
    /\ clock < MaxTicks * SecondsPerHour
    /\ clock' = clock + SecondsPerHour
    /\ last_op' = Op("tick", "", "", "", 0, 0, 0, FALSE)
    /\ UNCHANGED <<state_cache, state_file, trace>>
    /\ UNCHANGED <<schedulerVars, auxVars>>

CallShouldSendDown(site_url, current_status, consecutive_failures, failure_threshold) ==
    LET answer == should_send_down_notification(state_cache, site_url, current_status, consecutive_failures, failure_threshold)
        after == after_query(Self, site_url, "down", consecutive_failures, answer, clock)
    IN /\ state_cache' = after.cache
       /\ state_file' = after.file
       /\ last_op' = Op("should_send_down_notification", site_url, current_status, "", consecutive_failures, failure_threshold, 0, answer)
       /\ UNCHANGED <<clock, trace>>
       /\ UNCHANGED <<schedulerVars, auxVars>>

CallShouldSendRecovery(site_url, current_status, previous_status, previous_failures, failure_threshold) ==
    LET answer == should_send_recovery_notification(state_cache, site_url, current_status, previous_status, previous_failures, failure_threshold)
        after == after_query(Self, site_url, "up", 0, answer, clock)
    IN /\ state_cache' = after.cache
       /\ state_file' = after.file
       /\ last_op' = Op("should_send_recovery_notification", site_url, current_status, previous_status, previous_failures, failure_threshold, 0, answer)
       /\ UNCHANGED <<clock, trace>>
       /\ UNCHANGED <<schedulerVars, auxVars>>

CallUpdate(site_url, status, consecutive_failures) ==
    LET after == update_notification_state(Self, site_url, status, consecutive_failures, clock)
    IN /\ state_cache' = after.cache
       /\ state_file' = after.file
       /\ last_op' = Op("update_notification_state", site_url, status, "", consecutive_failures, 0, 0, FALSE)
       /\ UNCHANGED <<clock, trace>>
       /\ UNCHANGED <<schedulerVars, auxVars>>

CallClear(site_url) ==
    LET after == clear_site_state(Self, site_url)
    IN /\ state_cache' = after.cache
       /\ state_file' = after.file
       /\ last_op' = Op("clear_site_state", site_url, "", "", 0, 0, 0, FALSE)
       /\ UNCHANGED <<clock, trace>>
       /\ UNCHANGED <<schedulerVars, auxVars>>

CallCleanup(max_age_hours) ==
    LET after == cleanup_old_states(Self, max_age_hours, clock)
    IN /\ state_cache' = after.cache
       /\ state_file' = after.file
       /\ last_op' = Op("cleanup_old_states", "", "", "", 0, 0, max_age_hours, FALSE)
       /\ UNCHANGED <<clock, trace>>
       /\ UNCHANGED <<schedulerVars, auxVars>>

\* the process restarts: a new NotificationTracker is constructed on the file
NewTracker ==
    /\ state_cache' = load_state(state_file)
    /\ last_op' = Op("__init__", "", "", "", 0, 0, 0, FALSE)
    /\ UNCHANGED <<state_file, clock, trace>>
    /\ UNCHANGED <<schedulerVars, auxVars>>

TrackerNext ==
    \/ Tick
    \/ \E u \in URLs, s \in Statuses, n \in Counts : CallUpdate(u, s, n)
    \/ \E u \in URLs : CallClear(u)
    \/ \E h \in 0..MaxAgeHours : CallCleanup(h)
    \/ NewTracker

TrackerSpecInit ==
    /\ Init
    /\ is_telegram_configured(config)
    /\ config.failure_threshold = 1
    /\ sites = <<"u1", "u2">>

\* any sequence of the mutating calls, restarts and clock advances
SpecTracker == TrackerSpecInit /\ [][TrackerNext]_vars

QueriesNext ==
    \/ \E u \in URLs, s \in Statuses, n \in Counts, t \in Thresholds : CallShouldSendDown(u, s, n, t)
    \/ \E u \in URLs, s \in Statuses, ps \in PreviousStatuses, n \in Counts, t \in Thresholds : CallShouldSendRecovery(u, s, ps, n, t)
    \/ \E u \in URLs, s \in Statuses, n \in Counts : CallUpdate(u, s, n)

\* the two decision queries on every table the commit operation can build
SpecQueries == TrackerSpecInit /\ [][QueriesNext]_vars

\* --------------------------- a caller that commits exactly when it has sent
\* One probe of site_url: the snapshot update of poll_once, then the two
\* decision queries, then the send, then the commit if the send succeeded.
DeciderProbe(site_url, outcome, delivered) ==
    /\ probes < MaxDeciderProbes
    /\ LET previous_failures == previous_failures_of(latest_status_snapshot, site_url)
           previous_status == previous_status_of(latest_status_snapshot, site_url)
           new_failures == new_failures_of(previous_failures, outcome)
           threshold == get_failure_threshold(config)
           down == should_send_down_notification(state_cache, site_url, outcome, new_failures, threshold)
           recovery == should_send_recovery_notification(state_cache, site_url, outcome, previous_status, previous_failures, threshold)
           after == IF down /\ delivered
                    THEN update_notification_state(Self, site_url, "down", new_failures, clock)
                    ELSE IF ~down /\ recovery /\ delivered
                    THEN update_notification_state(Self, site_url, "up", 0, clock)
                    ELSE Self
       IN /\ (delivered = FALSE \/ down \/ recovery)
          /\ latest_status_snapshot' =
                DictSet(latest_status_snapshot, site_url,
                        [status |-> outcome, consecutive_failures |-> new_failures])
          /\ hist' = [hist EXCEPT ![site_url] = Append(@, outcome)]
          /\ state_cache' = after.cache
          /\ state_file' = after.file
          /\ trace' = [trace EXCEPT ![site_url] = Append(@,
                [status |-> outcome, n |-> new_failures,
                 previous_status |-> previous_status, previous_failures |-> previous_failures,
                 down |-> down, recovery |-> recovery, sent |-> delivered,
                 last |-> IF site_url \in DOMAIN state_cache
                          THEN state_cache[site_url].status ELSE "none",
                 last_n |-> IF site_url \in DOMAIN state_cache
                            THEN state_cache[site_url].consecutive_failures ELSE 0])]
    /\ probes' = probes + 1
    /\ UNCHANGED <<config, sites, log, pc, cycle_sites, cycle_threshold, idx, alerts>>
    /\ UNCHANGED <<clock, last_op, auxVars>>

DeciderNext ==
    \E u \in URLs, outcome \in Outcomes, delivered \in BOOLEAN : DeciderProbe(u, outcome, delivered)

DeciderInit ==
    /\ Init
    /\ is_telegram_configured(config)
    /\ sites = <<"u1", "u2">>

SpecDecider == DeciderInit /\ [][DeciderNext]_vars

\* ------------------------------------------------------ monitor.real_check
\* Text is a sequence of characters; str.lower maps each character.
Chars == {"a", "A", "b"}

lower_char(c) == IF c = "A" THEN "a" ELSE c

lower(text) == [i \in 1..Len(text) |-> lower_char(text[i])]

\* needle in haystack, Python's substring test (the empty string is in every string)
contains(haystack, needle) ==
    \E i \in 0..(Len(haystack) - Len(needle)) :
        SubSeq(haystack, i + 1, i + Len(needle)) = needle

RECURSIVE SeqsUpTo(_, _)
SeqsUpTo(S, n) ==
    IF n = 0 THEN {<<>>}
    ELSE LET shorter == SeqsUpTo(S, n - 1)
         IN shorter \cup {Append(q, x) : q \in shorter, x \in S}

Bodies == SeqsUpTo(Chars, MaxBodyLen)

KeywordChoices == {<<"A">>, <<"b", "a">>, <<>>}

\* the site's "keywords" (None and [] are both the empty list to "if keywords")
KeywordLists == SeqsUpTo(KeywordChoices, MaxKeywords)

HttpStatuses == {199, 200, 302, 399, 400, 404, 500}

\* What requests.get does: it returns a response or raises.  An exception
\* is named by its class; Ancestors is the class with its base classes
\* (requests.exceptions: SSLError and ConnectTimeout derive from
\* ConnectionError, ConnectTimeout and ReadTimeout from Timeout).
NetOutcomes == {"response", "ReadTimeout", "ConnectTimeout", "ConnectionError",
                "SSLError", "RequestException", "Exception"}

Ancestors(exc) ==
    CASE exc = "ReadTimeout" -> {"ReadTimeout", "Timeout", "RequestException", "Exception"}
      [] exc = "ConnectTimeout" -> {"ConnectTimeout", "ConnectionError", "Timeout", "RequestException", "Exception"}
      [] exc = "ConnectionError" -> {"ConnectionError", "RequestException", "Exception"}
      [] exc = "SSLError" -> {"SSLError", "ConnectionError", "RequestException", "Exception"}
      [] exc = "RequestException" -> {"RequestException", "Exception"}
      [] OTHER -> {"Exception"}

\* the except clauses of real_check, in their order
ExceptClauses == <<"Timeout", "ConnectionError", "SSLError", "RequestException", "Exception">>

\* the first clause that catches exc, "" when none does
catching_clause(clauses, exc) ==
    LET matching == {i \in 1..Len(clauses) : clauses[i] \in Ancestors(exc)}
    IN IF matching = {} THEN ""
       ELSE clauses[CHOOSE i \in matching : \A j \in matching : i <= j]

\* check_ssl_certificate: scheme is urlparse(url).scheme, handshake what the
\* TLS connection does
SslOutcomes == {"ok", "SSLError", "timeout", "Exception"}

check_ssl_certificate(scheme, handshake) ==
    IF scheme # "https" THEN [ssl_status |-> "not_applicable", ssl_error |-> "None"]
    ELSE IF handshake = "ok" THEN [ssl_status |-> "up", ssl_error |-> "None"]
    ELSE IF handshake = "SSLError" THEN [ssl_status |-> "down", ssl_error |-> "ssl_error"]
    ELSE IF handshake = "timeout" THEN [ssl_status |-> "down", ssl_error |-> "ssl_timeout"]
    ELSE [ssl_status |-> "down", ssl_error |-> "ssl_check_exception"]

is_up_of_keyword_and_status(keywords, body, http_status) ==
    LET content == lower(body)
    IN IF keywords # <<>>
       THEN /\ \E k \in 1..Len(keywords) : contains(content, lower(keywords[k]))
            /\ 200 <= http_status /\ http_status < 400
       ELSE 200 <= http_status /\ http_status < 400

\* real_check, the classification of a response
is_up_of(keywords, body, http_status) ==
    LET content == lower(body)
    IN IF keywords # <<>>
       THEN \E k \in 1..Len(keywords) : contains(content, lower(keywords[k]))
       ELSE 200 <= http_status /\ http_status < 400

\* real_check's try statement with the given except clauses, then the SSL
\* check and the return.  raised: an exception leaves the function.
real_check_with(clauses, scheme, net, http_status, body, keywords, handshake) ==
    LET clause == catching_clause(clauses, net)
        is_up == net = "response" /\ is_up_of(keywords, body, http_status)
        ssl_result == check_ssl_certificate(scheme, handshake)
    IN [raised |-> net # "response" /\ clause = "",
        http_status |-> IF net = "response" THEN http_status
                        ELSE IF clause = "Timeout" THEN 408 ELSE 0,
        html_keyword |-> IF net = "response" /\ keywords # <<>>
                         THEN (IF is_up THEN "success" ELSE "error") ELSE "-",
        ssl_status |-> ssl_result.ssl_status,
        status |-> IF is_up THEN "up" ELSE "down",
        latency_ms |-> "int",
        timestamp |-> "float",
        error |-> IF net = "response" THEN "None"
                  ELSE IF clause = "Timeout" THEN "request_timeout"
                  ELSE IF clause = "ConnectionError" THEN "connection_failed"
                  ELSE IF clause = "SSLError" THEN "ssl_certificate_error"
                  ELSE IF clause = "RequestException" THEN "request_exception"
                  ELSE "unknown_error",
        ssl_error |-> ssl_result.ssl_error]

real_check_without_catch_all(scheme, net, http_status, body, keywords, handshake) ==
    real_check_with(SubSeq(ExceptClauses, 1, 4), scheme, net, http_status, body, keywords, handshake)

real_check(scheme, net, http_status, body, keywords, handshake) ==
    real_check_with(ExceptClauses, scheme, net, http_status, body, keywords, handshake)

\* one call of real_check
CallRealCheck(scheme, net, http_status, body, keywords, handshake) ==
    /\ probe_result' = [called |-> TRUE, scheme |-> scheme, net |-> net,
                        http_status |-> http_status, body |-> body, keywords |-> keywords,
                        result |-> real_check(scheme, net, http_status, body, keywords, handshake)]
    /\ UNCHANGED <<schedulerVars, trackerVars, logVars, reader, localVars>>

ProbeNext ==
    /\ ~probe_result.called
    /\ \E scheme \in {"http", "https"}, net \in NetOutcomes, http_status \in HttpStatuses,
          body \in Bodies, keywords \in KeywordLists, handshake \in SslOutcomes :
           /\ (net # "response" => http_status = 200 /\ body = <<>>)
           /\ (scheme # "https" => handshake = "ok")
           /\ CallRealCheck(scheme, net, http_status, body, keywords, handshake)

\* real_check, which keeps no state between calls, called once on every
\* request outcome, body and keyword list
SpecProbe == TrackerSpecInit /\ [][ProbeNext]_vars

\* --------------------------------------------------------- log_manager.py
\* Time is counted in ticks, TicksPerSecond to the second: time.time() and
\* datetime.now() have a fraction of a second, a line's timestamp has none.
IntervalTicks == cleanup_interval * TicksPerSecond

RetentionTicks == log_retention_days * HoursPerDay * SecondsPerHour * TicksPerSecond

\* the time at which the process starts
StartTicks == 2 * RetentionTicks

\* datetime.now().strftime("%Y-%m-%d %H:%M:%S"): the whole seconds of now
strftime(now) == now \div TicksPerSecond

\* datetime.strptime(timestamp_str, "%Y-%m-%d %H:%M:%S").timestamp()
strptime(sec) == sec * TicksPerSecond

\* A line of the log.  kind is what _should_keep_log_line makes of its
\* bracketed prefix: "dated" parses as date and time, "time_only" is the old
\* HH:MM:SS format, "unparsed" is anything else.
Line(kind, sec, id) == [kind |-> kind, sec |-> sec, id |-> id]

\* f"[{timestamp}] {message}"
log_entry(now, id) == Line("dated", strftime(now), id)

\* the files the process can find at start: none, or lines of earlier runs
InitialFiles == {<<>>, <<Line("dated", 0, 0), Line("unparsed", 0, 0), Line("time_only", 0, 0), Line("dated", strftime(StartTicks), 0)>>}

\* Python's seq[-n:]
last_n(seq, n) ==
    IF n = 0 \/ n >= Len(seq) THEN seq ELSE SubSeq(seq, Len(seq) - n + 1, Len(seq))

\* "\n".join(chunks): the chunks with a line break between two of them
NewLine == Line("newline", 0, 0)

RECURSIVE join(_)
join(chunks) ==
    IF chunks = <<>> THEN <<>>
    ELSE IF Len(chunks) = 1 THEN chunks
    ELSE <<Head(chunks), NewLine>> \o join(Tail(chunks))

should_keep_log_line_dropping_unparsed(line, cutoff_timestamp) ==
    line.kind = "dated" /\ strptime(line.sec) >= cutoff_timestamp

\* _should_keep_log_line
should_keep_log_line(line, cutoff_timestamp) ==
    IF line.kind = "dated" THEN strptime(line.sec) >= cutoff_timestamp ELSE TRUE

\* the lines a cleanup pass leaves in a file in which it has read lines
kept_lines(lines, cutoff_timestamp) ==
    SelectSeq(lines, LAMBDA l : should_keep_log_line(l, cutoff_timestamp))

\* the file after the pass: rewritten only when a line was removed
rewritten(file, lines, cutoff_timestamp) ==
    IF Len(kept_lines(lines, cutoff_timestamp)) < Len(lines)
    THEN kept_lines(lines, cutoff_timestamp) ELSE file

history_after_append_unbounded(history, entry) == Append(history, entry)

\* log_message: self.log_history.append(log_entry) and the trim
history_after_append(history, entry) ==
    IF Len(Append(history, entry)) > MaxLogHistory
    THEN last_n(Append(history, entry), MaxLogHistory)
    ELSE Append(history, entry)

queue_get_newest(queue) == [item |-> queue[Len(queue)], rest |-> SubSeq(queue, 1, Len(queue) - 1)]

\* Queue.get on a queue that is not empty
queue_get(queue) == [item |-> Head(queue), rest |-> Tail(queue)]

\* the text of the placeholder "(暂无日志)"
NoLogsYet == Line("placeholder", 0, 0)

\* get_history_text(n); n = -1 stands for None
get_history_text(history, n) ==
    IF history = <<>> THEN <<NoLogsYet, NewLine>>
    ELSE join(last_n(history, IF n = -1 THEN MaxLogHistory ELSE n)) \o <<NewLine>>

history_after_read_trimming(history, n) == last_n(history, IF n = -1 THEN MaxLogHistory ELSE n)

\* what get_history_text leaves in self.log_history
history_after_read(history, n) == history

cleanup_due_at_interval(current_time, last) == current_time - last >= IntervalTicks

\* log_message: if current_time - self.last_cleanup_time > self.cleanup_interval
cleanup_due(current_time, last) == current_time - last > IntervalTicks

LogOp(name, n, result) == [name |-> name, n |-> n, result |-> result]

\* log_message(message): the entry goes to the queue, the history and the
\* file, then the hourly cleanup runs in the same call
LogMessage ==
    /\ Len(appended) < MaxLogHistory + MaxOverflow
    /\ LET entry == log_entry(wall_clock, Len(appended) + 1)
           due == cleanup_due(wall_clock, last_cleanup_time)
           written == Append(log_file, entry)
       IN /\ log_queue' = Append(log_queue, entry)
          /\ log_history' = history_after_append(log_history, entry)
          /\ log_file' = IF due /\ written # <<>>
                         THEN rewritten(written, written, wall_clock - RetentionTicks)
                         ELSE written
          /\ last_cleanup_time' = IF due THEN wall_clock ELSE last_cleanup_time
          /\ cleanup_times' = IF due THEN Append(cleanup_times, wall_clock) ELSE cleanup_times
          /\ appended' = Append(appended, entry)
          /\ log_op' = LogOp("log_message", IF due THEN 1 ELSE 0, <<>>)
    /\ UNCHANGED <<wall_clock, returned, cleanup_job, drain_job>>
    /\ UNCHANGED <<schedulerVars, trackerVars, probe_result, reader, localVars>>

\* drain_queue_as_text: one round of "while not self.log_queue.empty():
\* chunks.append(self.log_queue.get())"
DrainGet ==
    /\ log_queue # <<>>
    /\ drain_job' = [active |-> TRUE, chunks |-> Append(drain_job.chunks, queue_get(log_queue).item)]
    /\ log_queue' = queue_get(log_queue).rest
    /\ log_op' = LogOp("drain_get", 0, <<>>)
    /\ UNCHANGED <<log_history, log_file, last_cleanup_time, cleanup_times, wall_clock, appended, returned, cleanup_job>>
    /\ UNCHANGED <<schedulerVars, trackerVars, probe_result, reader, localVars>>

\* drain_queue_as_text: the queue is empty, return "\n".join(chunks)
DrainReturn ==
    /\ log_queue = <<>>
    /\ log_op' = LogOp("drain_queue_as_text", Len(returned), join(drain_job.chunks))
    /\ returned' = returned \o drain_job.chunks
    /\ drain_job' = NoDrain
    /\ UNCHANGED <<log_queue, log_history, log_file, last_cleanup_time, cleanup_times, wall_clock, appended, cleanup_job>>
    /\ UNCHANGED <<schedulerVars, trackerVars, probe_result, reader, localVars>>

GetHistoryText(n) ==
    /\ log_op' = LogOp("get_history_text", n, get_history_text(log_history, n))
    /\ log_history' = history_after_read(log_history, n)
    /\ UNCHANGED <<log_queue, log_file, last_cleanup_time, cleanup_times, wall_clock, appended, returned, cleanup_job, drain_job>>
    /\ UNCHANGED <<schedulerVars, trackerVars, probe_result, reader, localVars>>

\* cleanup_logs_now, from its start to the end of "lines = f.readlines()"
CleanupRead ==
    /\ ~cleanup_job.active
    /\ cleanup_job' = [active |-> log_file # <<>>, lines |-> log_file,
                       cutoff |-> wall_clock - RetentionTicks]
    /\ log_op' = LogOp("cleanup_read", 0, <<>>)
    /\ UNCHANGED <<log_queue, log_history, log_file, last_cleanup_time, cleanup_times, wall_clock, appended, returned, drain_job>>
    /\ UNCHANGED <<schedulerVars, trackerVars, probe_result, reader, localVars>>

\* cleanup_logs_now, the filter and "f.writelines(recent_lines)"
CleanupRewrite ==
    /\ cleanup_job.active
    /\ log_file' = rewritten(log_file, cleanup_job.lines, cleanup_job.cutoff)
    /\ log_op' = LogOp("cleanup_logs_now", cleanup_job.cutoff, <<>>)
    /\ cleanup_job' = NoJob
    /\ UNCHANGED <<log_queue, log_history, last_cleanup_time, cleanup_times, wall_clock, appended, returned, drain_job>>
    /\ UNCHANGED <<schedulerVars, trackerVars, probe_result, reader, localVars>>

TimeSteps == {1, IntervalTicks, RetentionTicks}

ClockOffsets == {a + b * IntervalTicks + c * RetentionTicks : a \in 0..MaxSlackTicks, b \in 0..1, c \in 0..1}

\* time passes
Advance(d) ==
    /\ (wall_clock + d) - StartTicks \in ClockOffsets
    /\ wall_clock' = wall_clock + d
    /\ log_op' = LogOp("advance", d, <<>>)
    /\ UNCHANGED <<log_queue, log_history, log_file, last_cleanup_time, cleanup_times, appended, returned, cleanup_job, drain_job>>
    /\ UNCHANGED <<schedulerVars, trackerVars, probe_result, reader, localVars>>

LogInit ==
    /\ SchedulerInit
    /\ is_telegram_configured(config)
    /\ config.failure_threshold = 1
    /\ sites = <<"u1", "u2">>
    /\ TrackerInit
    /\ probe_result = NoProbe
    /\ reader = NoReader
    /\ LocalsIdle
    /\ log_queue = <<>>
    /\ log_history = <<>>
    /\ log_file \in InitialFiles
    /\ last_cleanup_time = 0
    /\ cleanup_times = <<>>
    /\ wall_clock = StartTicks
    /\ appended = <<>>
    /\ returned = <<>>
    /\ log_op = NoLogOp
    /\ cleanup_job = NoJob
    /\ drain_job = NoDrain

\* the calls that work on the queue and the in-memory history: log_message
\* on the scheduler thread, the drain and the history read on the UI's
LogMemoryNext ==
    \/ LogMessage
    \/ DrainGet
    \/ DrainReturn
    \/ \E n \in -1..(MaxLogHistory + 1) : GetHistoryText(n)

SpecLogMemory == LogInit /\ [][LogMemoryNext]_vars

\* the calls that work on the file: log_message on the scheduler thread, a
\* forced cleanup on another thread, and the passing of time
LogFileNext ==
    \/ LogMessage
    \/ CleanupRead
    \/ CleanupRewrite
    \/ \E d \in TimeSteps : Advance(d)

SpecLogFile == LogInit /\ [][LogFileNext]_vars

\* ------------------------------------------------ ui._sites_to_table_rows
\* dict.get(key, default)
dict_get(d, key, default) == IF key \in DOMAIN d THEN d[key] ELSE default

reader_snap_looked_up_again(snap, snapshot, url) == dict_get(snapshot, url, EmptyDict)

\* the dict the reader takes a field from: the object bound to snap by the
\* one latest_status_snapshot.get(url, {}) of the iteration
reader_snap(snap, snapshot, url) == snap

\* snap = latest_status_snapshot.get(url, {})
ReaderGet(url) ==
    /\ reader.at \in {"idle", "done"}
    /\ reader' = [at |-> "got", url |-> url,
                  snap |-> dict_get(latest_status_snapshot, url, EmptyDict),
                  row |-> NoRow]
    /\ UNCHANGED <<schedulerVars, trackerVars, logVars, probe_result, localVars>>

\* status = snap.get("status", "-")
ReaderStatus ==
    /\ reader.at = "got"
    /\ LET snap == reader_snap(reader.snap, latest_status_snapshot, reader.url)
       IN reader' = [reader EXCEPT !.at = "status_read",
                                   !.row.status = dict_get(snap, "status", "-")]
    /\ UNCHANGED <<schedulerVars, trackerVars, logVars, probe_result, localVars>>

\* consecutive_failures = snap.get("consecutive_failures", 0); rows.append
ReaderCount ==
    /\ reader.at = "status_read"
    /\ LET snap == reader_snap(reader.snap, latest_status_snapshot, reader.url)
       IN reader' = [reader EXCEPT !.at = "done",
                                   !.row.consecutive_failures =
                                       dict_get(snap, "consecutive_failures", 0)]
    /\ UNCHANGED <<schedulerVars, trackerVars, logVars, probe_result, localVars>>

ReaderNext ==
    \/ \E i \in 1..Len(sites) : ReaderGet(sites[i])
    \/ ReaderStatus
    \/ ReaderCount

\* the scheduler thread and a UI refresh, interleaved statement by statement
\* alerting is off: the snapshot is written the same way with it on
ReaderInit ==
    /\ Init
    /\ config = [bot_token |-> "", chat_id |-> "", enabled |-> FALSE, failure_threshold |-> 1]
    /\ sites = <<"u1", "u2">>

SpecReader == ReaderInit /\ [][Next \/ ReaderNext]_vars

\* ------------------------- two threads calling the tracker at the same time
\* The tracker has no lock. A mutating call is: the assignment to (or del
\* from) _state_cache, then _save_state, which is open(path, "w") (the file is
\* truncated), json.dump into the file object's buffer, and the close at the
\* end of the with block, which writes the buffer at offset 0 of the file as
\* it then is. The length of a document is counted in members.
Threads == {1, 2}

UrlOf(t) == IF t = 1 THEN "u1" ELSE "u2"

ThreadOps == {"update_notification_state", "clear_site_state"}

Call(op, url) == [op |-> op, url |-> url, at |-> "call", buf |-> {}]

\* the tables the two calls can find: entries of earlier commits
RaceTables ==
    {[u \in D |-> [status |-> "up", timestamp |-> 0, consecutive_failures |-> 0]] :
        D \in SUBSET URLs}

\* open(self.state_file_path, "w")
opened(file) == [exists |-> TRUE, text |-> {}]

\* the file after a buffer is written at offset 0 and the descriptor closed:
\* what was in the file beyond the length of the buffer stays there
closed(file, tail, buf) ==
    LET behind == Cardinality(file.text) + tail - Cardinality(buf)
    IN [file |-> [exists |-> TRUE, text |-> buf],
        tail |-> IF behind > 0 THEN behind ELSE 0]

\* self._state_cache[site_url] = {...}  /  if site_url in cache: del cache[site_url]
RaceCall(t) ==
    /\ threads[t].at = "call"
    /\ IF threads[t].op = "update_notification_state"
       THEN /\ state_cache' = DictSet(state_cache, threads[t].url,
                                      [status |-> "down", timestamp |-> clock,
                                       consecutive_failures |-> 1])
            /\ threads' = [threads EXCEPT ![t].at = "open"]
       ELSE IF threads[t].url \in DOMAIN state_cache
       THEN /\ state_cache' = DictDel(state_cache, threads[t].url)
            /\ threads' = [threads EXCEPT ![t].at = "open"]
       ELSE /\ state_cache' = state_cache
            /\ threads' = [threads EXCEPT ![t].at = "done"]
    /\ UNCHANGED <<state_file, clock, last_op, trace, file_tail, iteration, events>>
    /\ UNCHANGED <<schedulerVars, logVars, probe_result, reader>>

\* _save_state: with open(self.state_file_path, "w", encoding="utf-8") as f
RaceOpen(t) ==
    /\ threads[t].at = "open"
    /\ state_file' = opened(state_file)
    /\ file_tail' = 0
    /\ threads' = [threads EXCEPT ![t].at = "dump"]
    /\ UNCHANGED <<state_cache, clock, last_op, trace, iteration, events>>
    /\ UNCHANGED <<schedulerVars, logVars, probe_result, reader>>

\* _save_state: json.dump(self._state_cache, f, ensure_ascii=False, indent=2)
RaceDump(t) ==
    /\ threads[t].at = "dump"
    /\ threads' = [threads EXCEPT ![t].at = "close", ![t].buf = json_dump(state_cache)]
    /\ UNCHANGED <<state_cache, state_file, clock, last_op, trace, file_tail, iteration, events>>
    /\ UNCHANGED <<schedulerVars, logVars, probe_result, reader>>

\* _save_state: the end of the with block
RaceClose(t) ==
    /\ threads[t].at = "close"
    /\ state_file' = closed(state_file, file_tail, threads[t].buf).file
    /\ file_tail' = closed(state_file, file_tail, threads[t].buf).tail
    /\ threads' = [threads EXCEPT ![t].at = "done"]
    /\ UNCHANGED <<state_cache, clock, last_op, trace, iteration, events>>
    /\ UNCHANGED <<schedulerVars, logVars, probe_result, reader>>

RaceNext ==
    \/ \E t \in Threads : RaceCall(t)
    \/ \E t \in Threads : RaceOpen(t)
    \/ \E t \in Threads : RaceDump(t)
    \/ \E t \in Threads : RaceClose(t)

RaceInit ==
    /\ SchedulerInit
    /\ is_telegram_configured(config)
    /\ config.failure_threshold = 1
    /\ sites = <<"u1", "u2">>
    /\ state_cache \in RaceTables
    /\ state_file = [exists |-> TRUE, text |-> json_dump(state_cache)]
    /\ clock = SecondsPerHour
    /\ last_op = NoOp
    /\ trace = [u \in URLs |-> <<>>]
    /\ LogIdle
    /\ probe_result = NoProbe
    /\ reader = NoReader
    /\ iteration = NoIteration
    /\ events = <<>>
    /\ threads \in {[t \in Threads |-> Call(op[t], UrlOf(t))] : op \in [Threads -> ThreadOps]}
    /\ file_tail = 0

\* two tracker calls for different URLs, statement by statement
SpecRace == RaceInit /\ [][RaceNext]_vars

\* ------------------------------------- poll_once, statement by statement
Event(i, url, step, delivered) == [i |-> i, url |-> url, step |-> step, delivered |-> delivered]

\* _loop calls poll_once(sites)
StepStartCycle ==
    /\ pc = "idle"
    /\ pc' = "probing"
    /\ cycle_sites' = sites
    /\ cycle_threshold' = get_failure_threshold(config)
    /\ idx' = 1
    /\ iteration' = NoIteration
    /\ events' = <<>>
    /\ UNCHANGED <<config, sites, latest_status_snapshot, log, probes, hist, alerts>>
    /\ UNCHANGED <<trackerVars, logVars, probe_result, reader, threads, file_tail>>

\* result = real_check(url, keywords)
StepProbe(outcome) ==
    /\ pc = "probing"
    /\ iteration.at = "probe"
    /\ idx <= Len(cycle_sites)
    /\ probes < MaxStepProbes
    /\ cycle_sites[idx] \in URLs
    /\ iteration' = [at |-> "snapshot", url |-> cycle_sites[idx], status |-> outcome]
    /\ hist' = [hist EXCEPT ![cycle_sites[idx]] = Append(@, outcome)]
    /\ probes' = probes + 1
    /\ events' = Append(events, Event(idx, cycle_sites[idx], "probe", FALSE))
    /\ UNCHANGED <<config, sites, latest_status_snapshot, log, pc, cycle_sites,
                   cycle_threshold, idx, alerts>>
    /\ UNCHANGED <<trackerVars, logVars, probe_result, reader, threads, file_tail>>

\* previous = ...; new_failures = ...; latest_status_snapshot[url] = {...}
StepSnapshot ==
    /\ iteration.at = "snapshot"
    /\ LET url == iteration.url
           previous_failures == previous_failures_of(latest_status_snapshot, url)
           previous_status == previous_status_of(latest_status_snapshot, url)
           new_failures == new_failures_of(previous_failures, iteration.status)
       IN /\ latest_status_snapshot' =
                DictSet(latest_status_snapshot, url,
                        [status |-> iteration.status, consecutive_failures |-> new_failures])
          /\ iteration' = [at |-> "log", url |-> url, status |-> iteration.status,
                           previous_failures |-> previous_failures,
                           previous_status |-> previous_status,
                           new_failures |-> new_failures]
          /\ events' = Append(events, Event(idx, url, "snapshot", FALSE))
    /\ UNCHANGED <<config, sites, log, pc, cycle_sites, cycle_threshold, idx, probes,
                   hist, alerts>>
    /\ UNCHANGED <<trackerVars, logVars, probe_result, reader, threads, file_tail>>

\* write_log_line(log_line)
StepLogLine ==
    /\ iteration.at = "log"
    /\ log' = Append(log, poll_log_lines(iteration.url, iteration.status,
                                         iteration.new_failures, FALSE, FALSE)[1])
    /\ iteration' = [iteration EXCEPT !.at = "decide"]
    /\ events' = Append(events, Event(idx, iteration.url, "log", FALSE))
    /\ UNCHANGED <<config, sites, latest_status_snapshot, pc, cycle_sites, cycle_threshold,
                   idx, probes, hist, alerts>>
    /\ UNCHANGED <<trackerVars, logVars, probe_result, reader, threads, file_tail>>

\* if is_telegram_configured(): if <down condition> ... elif <recovery condition>
StepDecide ==
    /\ iteration.at = "decide"
    /\ LET configured == is_telegram_configured(config)
           down_due == configured /\ down_alert_due(iteration.status, iteration.new_failures,
                                                    cycle_threshold)
           recovery_due == configured /\ ~down_due
                           /\ recovery_alert_due(iteration.status, iteration.previous_status,
                                                 iteration.previous_failures, cycle_threshold)
       IN /\ events' = Append(events, Event(idx, iteration.url, "decision", FALSE))
          /\ IF down_due \/ recovery_due
             THEN /\ iteration' = [at |-> "send", url |-> iteration.url,
                                   status |-> iteration.status,
                                   new_failures |-> iteration.new_failures,
                                   down_due |-> down_due, recovery_due |-> recovery_due]
                  /\ idx' = idx
             ELSE /\ iteration' = NoIteration
                  /\ idx' = idx + 1
    /\ UNCHANGED <<config, sites, latest_status_snapshot, log, pc, cycle_sites,
                   cycle_threshold, probes, hist, alerts>>
    /\ UNCHANGED <<trackerVars, logVars, probe_result, reader, threads, file_tail>>

\* send_site_down_alert(...) / send_site_recovery_alert(...)
StepSend(delivered) ==
    /\ iteration.at = "send"
    /\ alerts' = [alerts EXCEPT ![iteration.url] =
                     @ \o poll_alerts(Len(hist[iteration.url]), iteration.new_failures,
                                      iteration.down_due, iteration.recovery_due, delivered)]
    /\ iteration' = [iteration EXCEPT !.at = "sent_line"]
    /\ events' = Append(events, Event(idx, iteration.url, "send", delivered))
    /\ UNCHANGED <<config, sites, latest_status_snapshot, log, pc, cycle_sites,
                   cycle_threshold, idx, probes, hist>>
    /\ UNCHANGED <<trackerVars, logVars, probe_result, reader, threads, file_tail>>

\* write_log_line("[TELEGRAM] ..."), the last statement of the iteration
StepSentLine ==
    /\ iteration.at = "sent_line"
    /\ log' = Append(log, poll_log_lines(iteration.url, iteration.status,
                                         iteration.new_failures, iteration.down_due,
                                         iteration.recovery_due)[2])
    /\ iteration' = NoIteration
    /\ idx' = idx + 1
    /\ events' = Append(events, Event(idx, iteration.url, "sent_line", FALSE))
    /\ UNCHANGED <<config, sites, latest_status_snapshot, pc, cycle_sites, cycle_threshold,
                   probes, hist, alerts>>
    /\ UNCHANGED <<trackerVars, logVars, probe_result, reader, threads, file_tail>>

\* poll_once returns when the list is exhausted
StepEndCycle ==
    /\ iteration.at = "probe"
    /\ EndCycle

StepsNext ==
    \/ StepStartCycle
    \/ \E outcome \in Outcomes : StepProbe(outcome)
    \/ StepSnapshot
    \/ StepLogLine
    \/ StepDecide
    \/ \E delivered \in BOOLEAN : StepSend(delivered)
    \/ StepSentLine
    \/ StepEndCycle

StepsInit ==
    /\ Init
    /\ is_telegram_configured(config)
    /\ config.failure_threshold = 1

\* the scheduler thread alone, one statement group of poll_once at a time
SpecSteps == StepsInit /\ [][StepsNext]_vars

StepsAnyConfigInit ==
    /\ Init
    /\ config.failure_threshold = 1

\* the same, with alerting configured or not
SpecStepsAnyConfig == StepsAnyConfigInit /\ [][StepsNext]_vars

\* ------------------------------------------------------ the manual actions
CleanupStatuses == {"missing_or_empty", "cleaned", "nothing_to_clean"}

\* LogManager.cleanup_logs_now run to its end at time now: the file it leaves
\* and the status text it returns (the file is readable and writable, so the
\* "cleanup failed" text of the except clause is not among them)
cleanup_logs_now(file, now) ==
    LET cutoff_timestamp == now - RetentionTicks
        kept == kept_lines(file, cutoff_timestamp)
        removed_count == Len(file) - Len(kept)
    IN IF file = <<>>
       THEN [file |-> file, status |-> "missing_or_empty", removed |-> 0, kept |-> 0]
       ELSE IF removed_count > 0
       THEN [file |-> kept, status |-> "cleaned", removed |-> removed_count, kept |-> Len(kept)]
       ELSE [file |-> file, status |-> "nothing_to_clean", removed |-> 0, kept |-> Len(kept)]

\* for site_url in states.keys(): tracker.clear_site_state(site_url)
RECURSIVE clear_each(_, _)
clear_each(self, urls) ==
    IF urls = {} THEN self
    ELSE LET site_url == CHOOSE u \in urls : TRUE
         IN clear_each(clear_site_state(self, site_url), urls \ {site_url})

clear_all_notification_states_first_only(self) ==
    LET states == self.cache
    IN [self |-> IF DOMAIN states = {} THEN self
                 ELSE clear_site_state(self, CHOOSE u \in DOMAIN states : TRUE),
        status |-> "cleared", count |-> Cardinality(DOMAIN states)]

\* ui.clear_all_notification_states: states = tracker.get_all_states(), the
\* loop, and the text with len(states)
clear_all_notification_states(self) ==
    LET states == self.cache
    IN [self |-> clear_each(self, DOMAIN states),
        status |-> "cleared", count |-> Cardinality(DOMAIN states)]

\* the "clean logs now" button
ForcedCleanup ==
    /\ LET run == cleanup_logs_now(log_file, wall_clock)
       IN /\ log_file' = run.file
          /\ log_op' = LogOp("cleanup_logs_now", wall_clock - RetentionTicks,
                             <<[status |-> run.status, removed |-> run.removed, kept |-> run.kept]>>)
    /\ UNCHANGED <<log_queue, log_history, last_cleanup_time, cleanup_times, wall_clock, appended, returned,
                   cleanup_job, drain_job>>
    /\ UNCHANGED <<schedulerVars, trackerVars, probe_result, reader, localVars>>

\* the "clear notification states" button
ClearAll ==
    /\ LET run == clear_all_notification_states(Self)
       IN /\ state_cache' = run.self.cache
          /\ state_file' = run.self.file
          /\ last_op' = Op("clear_all_notification_states", "", run.status, "", run.count, 0, 0, FALSE)
    /\ UNCHANGED <<clock, trace>>
    /\ UNCHANGED <<schedulerVars, auxVars>>

\* the scheduler's probe while the buttons are used
ManualPoll(outcome) ==
    /\ probes < MaxManualProbes
    /\ PollSite(outcome, FALSE)

ManualNext ==
    \/ ForcedCleanup
    \/ ClearAll
    \/ \E d \in TimeSteps : Advance(d)
    \/ \E u \in URLs : CallUpdate(u, "down", 1)
    \/ StartCycle
    \/ \E outcome \in Outcomes : ManualPoll(outcome)
    \/ EndCycle

ManualInit ==
    /\ SchedulerInit
    /\ config = [bot_token |-> "", chat_id |-> "", enabled |-> FALSE, failure_threshold |-> 1]
    /\ sites = <<"u1">>
    /\ TrackerInit
    /\ probe_result = NoProbe
    /\ reader = NoReader
    /\ LocalsIdle
    /\ log_queue = <<>>
    /\ log_history = <<>>
    /\ log_file \in InitialFiles
    /\ last_cleanup_time = 0
    /\ cleanup_times = <<>>
    /\ wall_clock = StartTicks
    /\ appended = <<>>
    /\ returned = <<>>
    /\ log_op = NoLogOp
    /\ cleanup_job = NoJob
    /\ drain_job = NoDrain

\* the two buttons pressed at any time while the scheduler runs
SpecManual == ManualInit /\ [][ManualNext]_vars

\* ---------------------------------------------------------------- storage
\* A record of sites.json is modelled by its URL; load_sites / save_sites
\* read and write the whole list, which the variable sites holds.
add_site(list, url) == Append(list, url)

\* index counts from 0, as the UI's selected row does
delete_site(list, index) ==
    IF 0 <= index /\ index < Len(list)
    THEN SubSeq(list, 1, index) \o SubSeq(list, index + 2, Len(list))
    ELSE list

Monitored == {sites[i] : i \in 1..Len(sites)}

AddSite(url) ==
    /\ Len(sites) < MaxSites
    /\ sites' = add_site(sites, url)
    /\ last_op' = Op("add_site", url, "", "", 0, 0, 0, FALSE)
    /\ UNCHANGED <<config, latest_status_snapshot, log, pc, cycle_sites, cycle_threshold,
                   idx, probes, hist, alerts>>
    /\ UNCHANGED <<state_cache, state_file, clock, trace>>
    /\ UNCHANGED auxVars

\* delete_site: load_sites, del sites[index], save_sites; nothing else
DeleteSite(index) ==
    /\ sites' = delete_site(sites, index)
    /\ last_op' = Op("delete_site", IF 0 <= index /\ index < Len(sites) THEN sites[index + 1] ELSE "",
                     "", "", index, 0, 0, FALSE)
    /\ UNCHANGED <<config, latest_status_snapshot, log, pc, cycle_sites, cycle_threshold,
                   idx, probes, hist, alerts>>
    /\ UNCHANGED <<state_cache, state_file, clock, trace>>
    /\ UNCHANGED auxVars

\* a commit for a monitored endpoint, as a caller makes after a sent alert
CommitForSite(site_url, status, consecutive_failures) ==
    /\ site_url \in Monitored
    /\ CallUpdate(site_url, status, consecutive_failures)

SitesNext ==
    \/ \E u \in URLs : AddSite(u)
    \/ \E i \in -1..MaxSites : DeleteSite(i)
    \/ \E u \in URLs, s \in Statuses, n \in Counts : CommitForSite(u, s, n)

SitesInit ==
    /\ Init
    /\ is_telegram_configured(config)
    /\ config.failure_threshold = 1

\* the endpoint store edited while alerts are committed
SpecSites == SitesInit /\ [][SitesNext]_vars

\* ------------------------------------------------------ telegram_notifier
\* what requests.post to the Bot API does: {"ok": true}, {"ok": false}, an
\* HTTP error status (raise_for_status), or an exception of the request
Transports == {"ok", "not_ok", "http_error", "exception"}

Configs == [bot_token : {"", "token"}, chat_id : {"", "chat"},
            enabled : BOOLEAN, failure_threshold : Thresholds]

\* send_telegram_message: posted is whether requests.post was called,
\* result the value returned
send_telegram_message(c, transport) ==
    IF ~is_telegram_configured(c)
    THEN [posted |-> FALSE, result |-> FALSE]
    ELSE [posted |-> TRUE, result |-> transport = "ok"]

\* ------------------------------------------------- claims on the scheduler

\* C1: after every probe poll_once processes for a URL, the snapshot's
\* consecutive_failures is the length of the trailing run of down outcomes
\* probed for it so far (0 after an up, one more after each down, 1 or 0
\* after the very first probe); a URL never probed has no entry.
C1_TrailingRun ==
    \A u \in URLs :
        /\ (u \in DOMAIN latest_status_snapshot) <=> (hist[u] # <<>>)
        /\ u \in DOMAIN latest_status_snapshot =>
              /\ latest_status_snapshot[u].consecutive_failures = TrailingDowns(hist[u])
              /\ latest_status_snapshot[u].status = hist[u][Len(hist[u])]

C1_Witness ==
    \E u \in URLs :
        /\ Len(hist[u]) >= 4
        /\ hist[u][1] = "down"
        /\ hist[u][2] = "up"
        /\ latest_status_snapshot[u].consecutive_failures = 2

\* the alerts sent for u at its i-th probe, as <<kind, count>> pairs
AlertsAt(u, i) ==
    LET at_i(a) == a.at = i
        sent == SelectSeq(alerts[u], at_i)
    IN [k \in 1..Len(sent) |-> <<sent[k].kind, sent[k].n>>]

\* hist[u] is a prefix of: T+1 downs, then an up
OutageScenario(u, T) ==
    /\ Len(hist[u]) <= T + 2
    /\ \A i \in 1..Len(hist[u]) : hist[u][i] = (IF i <= T + 1 THEN "down" ELSE "up")

C5_NoAlertBelowThreshold ==
    \A u \in URLs :
        LongestDownRun(hist[u]) < config.failure_threshold => alerts[u] = <<>>

C5_Witness ==
    \E u \in URLs :
        /\ is_telegram_configured(config)
        /\ config.failure_threshold = 2
        /\ hist[u] = <<"down", "up", "down", "up">>
        /\ alerts[u] = <<>>

\* --------------------------------------------- claims on the two queries
IsDownQuery == last_op.name = "should_send_down_notification"
IsRecoveryQuery == last_op.name = "should_send_recovery_notification"
Stored(u) == u \in DOMAIN state_cache

\* C6: should_send_down_notification is false if status is not down or the
\* count is below the threshold; otherwise true with no stored state, true
\* with stored status up, true with stored status down and a count strictly
\* greater than the stored one, false with stored status down and an equal
\* count.
C6_DownDecisionTable ==
    IsDownQuery =>
        LET u == last_op.url
            n == last_op.n
        IN /\ (last_op.status # "down" \/ n < last_op.threshold) => ~last_op.result
           /\ (last_op.status = "down" /\ n >= last_op.threshold) =>
                /\ ~Stored(u) => last_op.result
                /\ (Stored(u) /\ state_cache[u].status = "up") => last_op.result
                /\ (Stored(u) /\ state_cache[u].status = "down"
                        /\ n > state_cache[u].consecutive_failures) => last_op.result
                /\ (Stored(u) /\ state_cache[u].status = "down"
                        /\ n = state_cache[u].consecutive_failures) => ~last_op.result

C6_Witness ==
    /\ IsDownQuery
    /\ last_op.result
    /\ Stored(last_op.url)
    /\ state_cache[last_op.url].status = "down"
    /\ last_op.n > state_cache[last_op.url].consecutive_failures

\* C7: should_send_recovery_notification is false unless the current status
\* is up, the previous status is down and the previous count reached the
\* threshold; when they hold it is true with no stored state or stored
\* status down, and false with stored status up.
C7_RecoveryDecisionTable ==
    IsRecoveryQuery =>
        LET u == last_op.url
            eligible == /\ last_op.status = "up"
                        /\ last_op.previous_status = "down"
                        /\ last_op.n >= last_op.threshold
        IN /\ ~eligible => ~last_op.result
           /\ eligible =>
                /\ ~Stored(u) => last_op.result
                /\ (Stored(u) /\ state_cache[u].status = "down") => last_op.result
                /\ (Stored(u) /\ state_cache[u].status = "up") => ~last_op.result

C7_Witness ==
    /\ IsRecoveryQuery
    /\ last_op.status = "up"
    /\ last_op.previous_status = "down"
    /\ last_op.n >= last_op.threshold
    /\ Stored(last_op.url)
    /\ state_cache[last_op.url].status = "up"
    /\ ~last_op.result

SameQuery(a, b) ==
    /\ a.name = b.name
    /\ a.url = b.url
    /\ a.status = b.status
    /\ a.previous_status = b.previous_status
    /\ a.n = b.n
    /\ a.threshold = b.threshold

\* C8: a call of either decision query leaves the in-memory table and the
\* state file as they were, and the same query asked again with no commit in
\* between gets the same answer.
C8_QueriesArePure ==
    [][last_op'.name \in {"should_send_down_notification", "should_send_recovery_notification"} =>
          /\ state_cache' = state_cache
          /\ state_file' = state_file
          /\ SameQuery(last_op, last_op') => last_op'.result = last_op.result]_vars

C8_Witness ==
    /\ IsDownQuery
    /\ last_op.result
    /\ ~Stored(last_op.url)
    /\ state_cache # EmptyDict

\* ------------------------------------------- claims on the mutating calls

Entries(u) == {trace[u][i] : i \in 1..Len(trace[u])}
Threshold == config.failure_threshold

\* C2 as stated: the down query is true at the probe where the count reaches
\* the threshold in each failure run, afterwards only for a count strictly
\* greater than the last committed one, never for an equal count.
C2_AsStated ==
    \A u \in URLs : \A e \in Entries(u) :
        /\ (e.status = "down" /\ e.n = Threshold) => e.down
        /\ (e.down /\ e.last = "down") => e.n > e.last_n
        /\ (e.last = "down" /\ e.n = e.last_n) => ~e.down

\* C2 amended: at the probe where the count reaches the threshold in a
\* failure run the down query is true unless the stored status is down with
\* a recorded count not below the current one (as after an outage whose
\* recovery alert was never committed); with a stored down state it is true
\* iff the count is at least the threshold and strictly greater than the
\* stored count, and never for an equal count.
C2_DownOncePerCommittedRun ==
    \A u \in URLs : \A e \in Entries(u) :
        /\ (e.status = "down" /\ e.n = Threshold) =>
              (e.down <=> ~(e.last = "down" /\ e.last_n >= e.n))
        /\ e.last = "down" =>
              (e.down <=> (e.status = "down" /\ e.n >= Threshold /\ e.n > e.last_n))
        /\ e.down => (e.status = "down" /\ e.n >= Threshold)
        /\ (e.last = "down" /\ e.n = e.last_n) => ~e.down

C2_Witness ==
    \E u \in URLs : \E i \in 2..Len(trace[u]) :
        /\ trace[u][i].status = "down"
        /\ trace[u][i].n = Threshold
        /\ trace[u][i - 1].status = "up"
        /\ trace[u][i].last = "down"
        /\ ~trace[u][i].down

RecoveryOfReachedRun(e) ==
    /\ e.status = "up"
    /\ e.previous_status = "down"
    /\ e.previous_failures >= Threshold

\* C3 as stated: the recovery query is true at the first up probe after a
\* failure run iff the run's length reached the threshold, and nowhere else.
C3_AsStated ==
    \A u \in URLs : \A e \in Entries(u) : e.recovery <=> RecoveryOfReachedRun(e)

\* C3 amended: the recovery query is true only at the first up probe after a
\* failure run whose length reached the threshold (so at most once per
\* recovery, never after a shorter run), and there it is true iff the stored
\* status is not up, i.e. the last committed alert was not a recovery.
C3_RecoveryOnceUnlessAlreadyUp ==
    \A u \in URLs : \A i \in 1..Len(trace[u]) :
        LET e == trace[u][i]
        IN /\ e.recovery <=> (RecoveryOfReachedRun(e) /\ e.last # "up")
           /\ e.previous_failures = TrailingDowns(SubSeq(hist[u], 1, i - 1))
           /\ e.recovery => (i > 1 /\ trace[u][i - 1].status = "down")

C3_Witness ==
    \E u \in URLs : \E e \in Entries(u) :
        /\ RecoveryOfReachedRun(e)
        /\ e.last = "up"
        /\ ~e.recovery

\* ------------------------------------------- claims on the loop's exceptions
\* C11 (as claimed): when an iteration of a poll cycle raises, every later
\* endpoint of the list is still probed in the same cycle: whenever the loop
\* is back at its sleep, the cycle it ran has gone through its whole list.
C11_CycleCoversEveryEndpoint ==
    pc = "idle" => idx > Len(cycle_sites)

\* C12 (as claimed): the scheduler loop never terminates: every exception of
\* a cycle is caught and logged and the loop goes on to its sleep.
C12_LoopNeverEnds ==
    pc # "dead"

\* -------------------------------------------------- claims on real_check
ResultFields == {"http_status", "html_keyword", "ssl_status", "status",
                 "latency_ms", "timestamp", "error", "ssl_error"}

\* C13: real_check never raises: for every request outcome (a response, a
\* timeout, a connection failure, a TLS failure, any other exception) it
\* returns a record with all of its fields whose status is up or down.
C13_RealCheckNeverRaises ==
    probe_result.called =>
        /\ ~probe_result.result.raised
        /\ ResultFields \subseteq DOMAIN probe_result.result
        /\ probe_result.result.status \in {"up", "down"}

C13_Witness ==
    /\ probe_result.called
    /\ probe_result.net = "Exception"
    /\ probe_result.scheme = "https"
    /\ probe_result.result.ssl_status = "down"
    /\ probe_result.result.status = "down"

\* text[from + 1 .. from + Len(word)] is word, up to letter case
MatchesAt(text, word, from) ==
    /\ from + Len(word) <= Len(text)
    /\ \A j \in 1..Len(word) : lower_char(text[from + j]) = lower_char(word[j])

\* C14: for a response, with a non-empty keyword list the status is up
\* exactly when the lower-cased body contains at least one lower-cased
\* keyword, whatever the HTTP status; with an empty list it is up exactly
\* when 200 <= http_status < 400.
C14_KeywordOrStatus ==
    (probe_result.called /\ probe_result.net = "response") =>
        LET r == probe_result
            up == r.result.status = "up"
        IN IF Len(r.keywords) > 0
           THEN up <=> \E k \in 1..Len(r.keywords), from \in 0..Len(r.body) :
                          MatchesAt(r.body, r.keywords[k], from)
           ELSE up <=> (r.http_status >= 200 /\ r.http_status < 400)

C14_Witness ==
    /\ probe_result.called
    /\ probe_result.net = "response"
    /\ probe_result.http_status = 500
    /\ probe_result.keywords = <<<<"b", "a">>, <<"A">>>>
    /\ probe_result.body = <<"b", "A">>
    /\ probe_result.result.status = "up"

\* ---------------------------------------------- claims on the log manager
Least(a, b) == IF a <= b THEN a ELSE b

\* C15: the in-memory history never holds more than max_log_history
\* entries, and it is the most recent min(total, max_log_history) entries
\* appended, in their order: the oldest are evicted first.
C15_HistoryIsMostRecent ==
    LET total == Len(appended)
        k == Least(total, MaxLogHistory)
    IN /\ Len(log_history) <= MaxLogHistory
       /\ Len(log_history) = k
       /\ \A i \in 1..k : log_history[i] = appended[total - k + i]

C15_Witness ==
    /\ Len(appended) = MaxLogHistory + 1
    /\ Len(log_history) = MaxLogHistory
    /\ log_history[1] = appended[2]
    /\ log_op.name = "log_message"

\* C16: under any interleaving of log_message with the drain, every entry
\* appended is returned by one drain only and in append order, a drain
\* returns exactly the entries that follow those of the drains before it,
\* and a drain with nothing new returns the empty string.
C16_DrainedOnceInOrder ==
    /\ returned \o drain_job.chunks \o log_queue = appended
    /\ log_op.name = "drain_queue_as_text" =>
          /\ log_op.result = join(SubSeq(appended, log_op.n + 1, Len(returned)))
          /\ (Len(returned) = log_op.n => log_op.result = <<>>)

C16_Witness ==
    /\ log_op.name = "drain_queue_as_text"
    /\ log_op.n = 1
    /\ Len(returned) = 3
    /\ log_op.result = <<appended[2], NewLine, appended[3]>>

C16_EmptyDrainWitness ==
    /\ log_op.name = "drain_queue_as_text"
    /\ log_op.n = 2
    /\ Len(returned) = 2
    /\ log_op.result = <<>>

\* C17: get_history_text(n) leaves the history, the queue and the file as
\* they were, for every n, and the text it returned is the text the same
\* call returns on the state it left.
C17_HistoryReadIsPure ==
    [][log_op'.name = "get_history_text" =>
          /\ log_history' = log_history
          /\ log_queue' = log_queue
          /\ log_file' = log_file
          /\ log_op'.result = get_history_text(log_history', log_op'.n)]_vars

C17_Witness ==
    /\ log_op.name = "get_history_text"
    /\ log_op.n = 1
    /\ Len(log_history) = 2
    /\ log_queue # <<>>
    /\ log_op.result = <<log_history[2], NewLine>>

\* ------------------------------------------------ claims on the log file
LinesOf(file) == {file[i] : i \in 1..Len(file)}

Undated(file) == SelectSeq(file, LAMBDA l : l.kind # "dated")

\* a step that completes a cleanup pass, forced or inside log_message
CleanupPassEnds ==
    \/ log_op'.name = "cleanup_logs_now"
    \/ log_op'.name = "log_message" /\ log_op'.n = 1

\* the cutoff of the pass that ends: its time less the retention window
CutoffOfPass ==
    IF log_op'.name = "cleanup_logs_now" THEN log_op'.n ELSE wall_clock' - RetentionTicks

\* C18: after a cleanup pass with the 3-day window, every line left in the
\* file whose timestamp parses is no older than the time of the pass less
\* 3 days, and every line whose timestamp does not parse is still there.
C18_CleanupKeepsRecentAndUnparsed ==
    [][CleanupPassEnds =>
          /\ \A l \in LinesOf(log_file') :
                l.kind = "dated" => strptime(l.sec) >= CutoffOfPass
          /\ Undated(log_file') = Undated(log_file)]_vars

C18_Witness ==
    /\ log_op.name = "cleanup_logs_now"
    /\ log_op.n = StartTicks + 1 - RetentionTicks
    /\ Line("dated", 0, 0) \notin LinesOf(log_file)
    /\ Line("unparsed", 0, 0) \in LinesOf(log_file)
    /\ Line("time_only", 0, 0) \in LinesOf(log_file)
    /\ Line("dated", strftime(StartTicks), 0) \in LinesOf(log_file)

\* C19 (as claimed): a log_message append that runs while a cleanup pass is
\* between its read and its rewrite loses no line: every line that is in
\* the file when the rewrite happens and was not there at the read is in
\* the file after the rewrite.
C19_NoAppendLostByRewrite ==
    [][(cleanup_job.active /\ ~cleanup_job'.active) =>
          \A l \in LinesOf(log_file) \ LinesOf(cleanup_job.lines) :
             l \in LinesOf(log_file')]_vars

\* ------------------------------------------ claims on the snapshot reader
\* every entry the snapshot has held for url, from the outcomes probed
EntriesHeld(url) ==
    {[status |-> hist[url][i],
      consecutive_failures |-> TrailingDowns(SubSeq(hist[url], 1, i))] :
        i \in 1..Len(hist[url])}

\* C20: a reader that runs while the scheduler updates a URL sees a whole
\* entry of that URL, the previous one or the new one (or none before the
\* first probe), never fields of two entries, and never status up with a
\* count other than 0.
C20_ReaderSeesWholeEntry ==
    reader.at = "done" =>
        /\ reader.row \in EntriesHeld(reader.url) \cup {NoRow}
        /\ (reader.row = NoRow => reader.snap = EmptyDict)
        /\ ~(reader.row.status = "up" /\ reader.row.consecutive_failures # 0)

\* the entry was replaced between the reader's get and its last field read
C20_Witness ==
    /\ reader.at = "done"
    /\ reader.url = "u1"
    /\ reader.row = [status |-> "down", consecutive_failures |-> 2]
    /\ latest_status_snapshot["u1"] = [status |-> "up", consecutive_failures |-> 0]

\* ------------------------------------------------- claims on the transport
HasCredentials(c) == c.bot_token # "" /\ c.chat_id # "" /\ c.enabled = TRUE

TelegramLines == SelectSeq(log, LAMBDA l : l.kind \in {"telegram_down", "telegram_recovery"})

DownAlertsAt(u, i) == SelectSeq(AlertsAt(u, i), LAMBDA a : a[1] = "down")

\* the length of the run of downs that ends at the i-th probe of u
RunAt(u, i) == TrailingDowns(SubSeq(hist[u], 1, i))

ProbedNow(u) == hist'[u] # hist[u]
OutcomeNow(u) == hist'[u][Len(hist'[u])]
NewAlerts(u) == SubSeq(alerts'[u], Len(alerts[u]) + 1, Len(alerts'[u]))
NewLogLines == SubSeq(log', Len(log) + 1, Len(log'))
KindsOf(s) == {s[k].kind : k \in 1..Len(s)}

\* C24: at every probe the scheduler sends a down alert iff
\* should_send_down_notification holds of the current notification state, and
\* a recovery alert iff should_send_recovery_notification does.
C24_SchedulerFollowsDecider ==
    [][\A u \in URLs :
          (HasCredentials(config) /\ ProbedNow(u)) =>
              LET previous_failures == previous_failures_of(latest_status_snapshot, u)
                  previous_status == previous_status_of(latest_status_snapshot, u)
                  new_failures == new_failures_of(previous_failures, OutcomeNow(u))
              IN /\ "down" \in KindsOf(NewAlerts(u)) <=>
                        should_send_down_notification(state_cache, u, OutcomeNow(u),
                                                      new_failures, cycle_threshold)
                 /\ "recovery" \in KindsOf(NewAlerts(u)) <=>
                        should_send_recovery_notification(state_cache, u, OutcomeNow(u),
                                                          previous_status, previous_failures,
                                                          cycle_threshold)]_vars

Delivered(u) == SelectSeq(alerts[u], LAMBDA a : a.delivered)

\* C25: after each successfully sent down (resp. recovery) alert for a URL the
\* stored notification state of the URL is down with the alerted failure
\* count (resp. up); a URL with no sent alert has no stored state.
C25_StateCommittedOnSend ==
    \A u \in URLs :
        IF Delivered(u) = <<>>
        THEN u \notin DOMAIN state_cache
        ELSE LET a == Delivered(u)[Len(Delivered(u))]
             IN /\ u \in DOMAIN state_cache
                /\ state_cache[u].status = (IF a.kind = "down" THEN "down" ELSE "up")
                /\ a.kind = "down" => state_cache[u].consecutive_failures = a.n
                /\ state_file.exists
                /\ load_state(state_file) = state_cache

\* C30: a probe whose alert the transport does not deliver gets a failure
\* line in the log and no 'alert sent' line; the send is not repeated in the
\* cycle and the cycle goes on with the next endpoint.
C30_TransportFailureLogged ==
    [][\A u \in URLs :
          (ProbedNow(u) /\ \E k \in 1..Len(NewAlerts(u)) : ~NewAlerts(u)[k].delivered) =>
              /\ "telegram_error" \in KindsOf(NewLogLines)
              /\ KindsOf(NewLogLines) \cap {"telegram_down", "telegram_recovery"} = {}
              /\ Len(NewAlerts(u)) = 1
              /\ pc' = "probing" /\ idx' = idx + 1]_vars

\* ------------------------------------ claims on who changes the state table
TableChanged == state_cache' # state_cache \/ state_file' # state_file
Written(u) == u \in DOMAIN state_cache' /\ (u \in DOMAIN state_cache => state_cache'[u] # state_cache[u])
Removed(u) == u \in DOMAIN state_cache /\ u \notin DOMAIN state_cache'

C26_NoStateForUnlistedSite ==
    /\ DOMAIN state_cache \subseteq Monitored
    /\ DOMAIN load_state(state_file) \subseteq Monitored

\* ------------------------------------------------ claims on the manual actions
SecondCleanup == cleanup_logs_now(log_file', wall_clock')
SecondClear == clear_all_notification_states([cache |-> state_cache', file |-> state_file'])
CleanupRan == log_op'.name = "cleanup_logs_now"
ClearRan == last_op'.name = "clear_all_notification_states"

StepRank(step) ==
    CASE step = "probe" -> 1
      [] step = "snapshot" -> 2
      [] step = "log" -> 3
      [] step = "decision" -> 4
      [] step = "send" -> 5
      [] step = "sent_line" -> 6
      [] step = "commit" -> 7

\* the steps taken so far in the cycle are in the order of the list, and in
\* the order probe, snapshot, decision, send within an endpoint
StepsOrdered ==
    /\ events # <<>> => (events[1].i = 1 /\ events[1].step = "probe")
    /\ \A k \in 1..Len(events) : events[k].url = cycle_sites[events[k].i]
    /\ \A k \in 1..(Len(events) - 1) :
          \/ /\ events[k + 1].i = events[k].i
             /\ StepRank(events[k + 1].step) > StepRank(events[k].step)
          \/ /\ events[k + 1].i = events[k].i + 1
             /\ events[k + 1].step = "probe"
             /\ events[k].step \in {"decision", "sent_line"}

\* an endpoint whose alert was delivered gets its commit before the cycle
\* moves to the next endpoint
CommitFollowsSend ==
    \A k \in 1..Len(events) :
        (events[k].step = "send" /\ events[k].delivered /\ events[k].i < idx) =>
            \E j \in (k + 1)..Len(events) :
                events[j].step = "commit" /\ events[j].i = events[k].i

\* C28: within one cycle the endpoints are processed one at a time in the
\* order of the list the endpoint store returned; for each endpoint the steps
\* occur in the order probe, snapshot update, alert decision, alert send,
\* commit; endpoint i is finished before the probe of endpoint i+1 starts.
C28_StepsInOrderWithCommit ==
    /\ StepsOrdered
    /\ CommitFollowsSend

\* ---------------------------------------- claims on concurrent tracker calls
BothDone == DOMAIN threads = Threads /\ \A t \in Threads : threads[t].at = "done"

Reflected(t, table) ==
    IF threads[t].op = "update_notification_state"
    THEN /\ threads[t].url \in DOMAIN table
         /\ table[threads[t].url].status = "down"
         /\ table[threads[t].url].consecutive_failures = 1
    ELSE threads[t].url \notin DOMAIN table

\* C21: when two mutations of the notification state for different URLs run
\* at the same time, then after both have finished the in-memory table and
\* the state file both reflect both mutations and the file is a well-formed
\* state table.
C21_ConcurrentMutationsSerialized ==
    BothDone =>
        /\ \A t \in Threads : Reflected(t, state_cache)
        /\ file_tail = 0
        /\ \A t \in Threads : Reflected(t, load_state(state_file))
        /\ load_state(state_file) = state_cache

\* ------------------------------------------- claims on the failure categories
\* the category of a request failure and the error text that belongs to it
CategoryText(net) ==
    CASE net \in {"ReadTimeout", "ConnectTimeout"} -> "request_timeout"
      [] net = "ConnectionError" -> "connection_failed"
      [] net = "SSLError" -> "ssl_certificate_error"
      [] net = "RequestException" -> "request_exception"
      [] OTHER -> "unknown_error"

\* C31: a timeout gives http_status 408 and the timeout text; a connection
\* failure, a TLS failure and a generic request failure each give http_status
\* 0 and their own error text; in all of them the error field is populated
\* and the outcome is down, with or without a keyword list.
C31_FailureCategoriesDistinct ==
    (probe_result.called /\ probe_result.net \in NetOutcomes \ {"response", "Exception"}) =>
        /\ probe_result.result.status = "down"
        /\ probe_result.result.error # "None"
        /\ probe_result.result.error = CategoryText(probe_result.net)
        /\ probe_result.result.http_status =
              (IF CategoryText(probe_result.net) = "request_timeout" THEN 408 ELSE 0)

\* ---------------------------------------- claims on the cleanup's schedule
TimesOf(seq) == {seq[k] : k \in 1..Len(seq)}

\* C32: the cleanup that appends trigger runs at most once in any window of
\* cleanup_interval: two such runs are more than cleanup_interval apart, so
\* an append inside the window after a run never triggers another.
C32_CleanupAtMostOncePerInterval ==
    \A i \in 1..Len(cleanup_times) : \A j \in 1..Len(cleanup_times) :
        i < j => cleanup_times[j] - cleanup_times[i] > cleanup_interval * TicksPerSecond

\* an append exactly cleanup_interval after a run did not trigger one, the
\* next append, one tick later, did
C32_Witness ==
    /\ Len(cleanup_times) = 2
    /\ cleanup_times[2] = cleanup_times[1] + cleanup_interval * TicksPerSecond + 1
    /\ \E k \in 1..Len(appended) :
          /\ strptime(appended[k].sec) = cleanup_times[1] + cleanup_interval * TicksPerSecond
          /\ strptime(appended[k].sec) \notin TimesOf(cleanup_times)

\* ------------------------------------------------ claims on the check line
CheckLines(u) == SelectSeq(log, LAMBDA l : l.kind = "check" /\ l.url = u)

\* 1 while the probe of u has been made and its check line not yet written
LinePending(u) ==
    IF iteration.at \in {"snapshot", "log"} /\ iteration.url = u THEN 1 ELSE 0

EventsOf(i, step) == {k \in 1..Len(events) : events[k].i = i /\ events[k].step = step}

\* C33: every probe appends exactly one check line for its endpoint, with
\* alerting configured or not and with outcome up or down, and the line is
\* appended after the snapshot update and before any alert is sent.
C33_OneCheckLinePerProbe ==
    /\ \A u \in URLs :
          /\ Len(CheckLines(u)) = Len(hist[u]) - LinePending(u)
          /\ \A k \in 1..Len(CheckLines(u)) : CheckLines(u)[k].status = hist[u][k]
    /\ \A k \in 1..Len(events) :
          LET i == events[k].i
          IN /\ Cardinality(EventsOf(i, "log")) <= 1
             /\ events[k].step = "log" =>
                   /\ \E j \in EventsOf(i, "snapshot") : j < k
                   /\ \A j \in EventsOf(i, "send") : j > k
             /\ events[k].step \in {"decision", "send"} =>
                   \E j \in EventsOf(i, "log") : j < k

\* a cycle over two endpoints in which the second one's alert has been sent
\* after its check line; the first was probed up and got its line too
C33_Witness ==
    /\ is_telegram_configured(config)
    /\ EventsOf(2, "send") # {}
    /\ EventsOf(1, "send") = {}
    /\ EventsOf(1, "log") # {}
    /\ \E u \in URLs : Len(CheckLines(u)) >= 1 /\ CheckLines(u)[1].status = "up"
    /\ \E u \in URLs : Len(CheckLines(u)) >= 1 /\ CheckLines(u)[Len(CheckLines(u))].status = "down"

\* the same cycle with alerting not configured: lines, no alert
C33_WitnessNotConfigured ==
    /\ ~is_telegram_configured(config)
    /\ EventsOf(2, "decision") # {}
    /\ Len(log) >= 2
    /\ \E u \in URLs : hist[u] # <<>> /\ hist[u][Len(hist[u])] = "down"

\* ------------------------------------------ claims on a stale down state
\* C34: should_send_down_notification is false whenever the stored state of
\* the URL is down with a recorded count strictly greater than the current
\* count, also when the current count has reached the threshold; a new outage
\* is not alerted until its count exceeds the recorded one.
C34_StaleDownStateSuppresses ==
    (/\ IsDownQuery
     /\ Stored(last_op.url)
     /\ state_cache[last_op.url].status = "down"
     /\ state_cache[last_op.url].consecutive_failures > last_op.n) =>
        ~last_op.result

\* the count has just reached the threshold, the recorded count is greater
C34_Witness ==
    /\ IsDownQuery
    /\ last_op.status = "down"
    /\ last_op.n = last_op.threshold
    /\ Stored(last_op.url)
    /\ state_cache[last_op.url].status = "down"
    /\ state_cache[last_op.url].consecutive_failures = last_op.n + 1
    /\ ~last_op.result

\* --------------------------------------------- claims on alerts per probe
KindsAt(u, i) == {AlertsAt(u, i)[k][1] : k \in 1..Len(AlertsAt(u, i))}

\* C35: for any single probe of an endpoint the scheduler sends at most one
\* alert; a probe with outcome up never sends a down alert and a probe with
\* outcome down never sends a recovery alert.
C35_AtMostOneAlertPerProbe ==
    \A u \in URLs : \A i \in 1..Len(hist[u]) :
        /\ Len(AlertsAt(u, i)) <= 1
        /\ hist[u][i] = "up" => "down" \notin KindsAt(u, i)
        /\ hist[u][i] = "down" => "recovery" \notin KindsAt(u, i)

\* a run longer than the alert window: the down probe after the window sends
\* nothing although the previous status is down; the up probe sends one
C35_Witness ==
    /\ is_telegram_configured(config)
    /\ config.failure_threshold = 1
    /\ \E u \in URLs :
          /\ hist[u] = <<"down", "down", "down", "down", "down", "up">>
          /\ AlertsAt(u, 5) = <<>>
          /\ AlertsAt(u, 6) = <<(<<"recovery", 0>>)>>

\* C36: with alerting configured, the first up probe after a contiguous
\* failure run of length >= threshold sends exactly one recovery alert, also
\* when the run was longer than threshold + 3; the next consecutive up probe
\* sends none.
C36_RecoveryAfterAnyRun ==
    is_telegram_configured(config) =>
        \A u \in URLs : \A i \in 2..Len(hist[u]) :
            hist[u][i] = "up" =>
                /\ (hist[u][i - 1] = "down" /\ RunAt(u, i - 1) >= config.failure_threshold) =>
                      AlertsAt(u, i) = <<(<<"recovery", 0>>)>>
                /\ hist[u][i - 1] = "up" => AlertsAt(u, i) = <<>>

\* a run of threshold + 4 downs, then two ups
C36_Witness ==
    /\ is_telegram_configured(config)
    /\ config.failure_threshold = 1
    /\ \E u \in URLs :
          /\ hist[u] = <<"down", "down", "down", "down", "down", "up", "up">>
          /\ Len(alerts[u]) = 5
          /\ alerts[u][5].kind = "recovery"
          /\ alerts[u][5].at = 6

\* ------------------------------- claims on the down query within one run
\* every true answer of the down query for u was followed by its commit
DownsCommitted(u) == \A e \in Entries(u) : e.down => e.sent

\* the probe i of u is in a failure run that has reached the threshold
InReachedRun(u, i) == trace[u][i].status = "down" /\ trace[u][i].n >= Threshold

\* the probes of the run that probe i of u belongs to, before i
EarlierInRun(u, i) == (i - trace[u][i].n + 1)..(i - 1)

\* C37 as stated: when (url, down, n) is committed after every true answer,
\* the down query is true at every probe of a failure run from the one where
\* the count reaches the threshold, and the duplicate-suppression branch is
\* never taken within a run.
C37_AsStated ==
    \A u \in URLs : DownsCommitted(u) =>
        \A i \in 1..Len(trace[u]) :
            InReachedRun(u, i) =>
                /\ trace[u][i].down
                /\ ~(trace[u][i].last = "down" /\ trace[u][i].last_n = trace[u][i].n)

\* C37 amended: under the same commits, the down query is true at every
\* probe of the run after one at which it was true, and from the threshold
\* probe onward when the state stored at the start of the run is absent or
\* up; it is false at a probe that has reached the threshold only against a
\* down state left by an earlier run with a count not below the current one,
\* and only then is the duplicate-suppression branch taken.
C37_TrueOnceTrueInRun ==
    \A u \in URLs : DownsCommitted(u) =>
        \A i \in 1..Len(trace[u]) :
            LET e == trace[u][i]
            IN InReachedRun(u, i) =>
                  /\ (i > 1 /\ trace[u][i - 1].down) => e.down
                  /\ e.last \in {"none", "up"} => e.down
                  /\ ~e.down =>
                        /\ e.last = "down" /\ e.last_n >= e.n
                        /\ \A j \in EarlierInRun(u, i) : ~trace[u][j].down
                  /\ (e.last = "down" /\ e.last_n = e.n) =>
                        \A j \in EarlierInRun(u, i) : ~trace[u][j].down

\* a down state left by an outage whose recovery was not committed: in the
\* next run the query is false at the threshold (equal count), true after it
C37_Witness ==
    \E u \in URLs : \E i \in 2..Len(trace[u]) :
        /\ DownsCommitted(u)
        /\ InReachedRun(u, i - 1)
        /\ ~trace[u][i - 1].down
        /\ trace[u][i - 1].last_n = trace[u][i - 1].n
        /\ trace[u][i].down
        /\ trace[u][i].n = trace[u][i - 1].n + 1

\* ------------------------------------------ claims on a repeated endpoint
\* the probes of u made so far in the current (or just finished) cycle
ProbedInCycle(u) == Cardinality({j \in 1..Len(cycle_sites) : j < idx /\ cycle_sites[j] = u})

\* the consecutive_failures of u when the cycle started
FailuresAtCycleStart(u) ==
    TrailingDowns(SubSeq(hist[u], 1, Len(hist[u]) - ProbedInCycle(u)))

\* C38: within one poll cycle the snapshot's consecutive_failures of a URL
\* increases by at most 1, also when the list holds the URL more than once.
C38_AtMostOneStepPerCycle ==
    \A u \in DOMAIN latest_status_snapshot :
        latest_status_snapshot[u].consecutive_failures <= FailuresAtCycleStart(u) + 1

\* ------------------------------------------- claims on the history read
Min(a, b) == IF a < b THEN a ELSE b

\* the last k entries of a history, in append order
LastEntries(history, k) == SubSeq(history, Len(history) - k + 1, Len(history))

\* C39: for every n >= 0 and every non-empty history get_history_text(n)
\* returns exactly the last min(n, len(history)) entries in append order
\* (n = 0 returns no entries); on an empty history it returns the
\* placeholder text.
C39_HistoryTextIsLastN ==
    (log_op.name = "get_history_text" /\ log_op.n >= 0) =>
        log_op.result =
            IF log_history = <<>> THEN <<NoLogsYet, NewLine>>
            ELSE join(LastEntries(log_history, Min(log_op.n, Len(log_history)))) \o <<NewLine>>

\* ------------------------------------------- claims on the cleanup pass
\* the file the pass that ends has before it: for the pass inside
\* log_message, the file with the entry of that call appended
FileBeforePass ==
    IF log_op'.name = "cleanup_logs_now" THEN log_file
    ELSE Append(log_file, appended'[Len(appended')])

RECURSIVE IsSubsequence(_, _)
IsSubsequence(s, t) ==
    IF s = <<>> THEN TRUE
    ELSE IF t = <<>> THEN FALSE
    ELSE IF Head(s) = Head(t) THEN IsSubsequence(Tail(s), Tail(t))
    ELSE IsSubsequence(s, Tail(t))

Expired(l, cutoff) == l.kind = "dated" /\ strptime(l.sec) < cutoff

\* the pass leaves the history and the queue as the rest of its call does
MemoryUntouchedByPass ==
    IF log_op'.name = "cleanup_logs_now"
    THEN log_history' = log_history /\ log_queue' = log_queue
    ELSE /\ log_history' = history_after_append(log_history, appended'[Len(appended')])
         /\ log_queue' = Append(log_queue, appended'[Len(appended')])

PassRemovesOnlyExpired ==
    /\ IsSubsequence(log_file', FileBeforePass)
    /\ \A l \in LinesOf(FileBeforePass) \ LinesOf(log_file') : Expired(l, CutoffOfPass)
    /\ log_file' # FileBeforePass => Len(log_file') < Len(FileBeforePass)
    /\ MemoryUntouchedByPass

\* C40: a cleanup pass only removes expired lines from the file: the lines
\* kept are an order-preserving subsequence of the lines the file had, the
\* file is rewritten only if a line is removed, and the in-memory history
\* and the queue are left as they were.
C40_CleanupRemovesOnlyExpired ==
    [][CleanupPassEnds => PassRemovesOnlyExpired]_vars

\* the same for the passes that read the file they rewrite: the pass inside
\* log_message, and a forced pass with no append since its read
C40_PassWithoutAppendInBetween ==
    [][(CleanupPassEnds /\ (log_op'.name = "cleanup_logs_now" => cleanup_job.lines = log_file))
          => PassRemovesOnlyExpired]_vars

====
